---- MODULE Spec2Model ----
(***************************************************************************)
(* Playback-session lifecycle of the jellyfin-external-player daemon       *)
(* (src/main.go): the session globals guarded by currentPlayerMu, the HTTP *)
(* handlers /api/play, /api/playlist, /api/stop and /api/status, the exit  *)
(* watcher goroutine, the playlist sequencer (monitorPlaylist) and the     *)
(* progress reporter.  Every goroutine is a task with a program counter;   *)
(* one step of a task is a mutex acquisition, a critical section up to its *)
(* Unlock, one statement outside a critical section, or the completion of  *)
(* one IPC / HTTP call.                                                    *)
(***************************************************************************)
EXTENDS Integers, Sequences, FiniteSets, TLC

(* ------------------------------ bounds -------------------------------- *)
MaxLaunches == 2      \* player processes spawned in one run
MaxMoves    == 2      \* playlist-pos changes made by the players in one run
MaxPathLen  == 3      \* characters of a requested path

(* --------------------------- program values --------------------------- *)
NoCmd    == 0                              \* currentPlayer == nil
Procs    == 1..MaxLaunches                 \* identities of *exec.Cmd values
NoTask   == <<"none", 0>>
IPCPath  == "/tmp/jf-external-player-mpv.sock"
LaunchH  == <<"launch", 0>>                \* the /api/play or /api/playlist handler
StopH    == <<"stop", 0>>                  \* the /api/stop handler
StatusH  == <<"status", 0>>                \* the /api/status handler
Handlers == {LaunchH, StopH, StatusH}
Main     == <<"main", 0>>                  \* func main up to http.ListenAndServe
Tasks    == Handlers \cup {Main} \cup ({"watch", "start"} \X Procs)
Watcher(p) == <<"watch", p>>
Starter(p) == <<"start", p>>

FullCreds == [serverURL |-> "http://emby", userId |-> "u1", token |-> "tok"]
NoCreds   == [serverURL |-> "", userId |-> "", token |-> ""]
OtherCreds == [serverURL |-> "http://emby2", userId |-> "u2", token |-> "tok2"]

\* length of the media behind an item id, in seconds (what mpv answers to
\* "duration" while it plays that item)
MediaDuration(item) == IF item = "b" THEN 2 ELSE 1

VARIABLES
    currentPlayer, currentPlayerMu, playerItemId, mpvIPCPath, lastPosition,
    videoDuration, playlist, playlistPosition, embyServerURL, embyUserId,
    embyToken,
    proc,       \* the spawned player processes and the request that spawned each
                \* (trackedAtExit, cleared: history of the process, read by no action)
    launched,   \* number of processes spawned so far
    moves,      \* number of playlist-pos changes made by the players so far
    pc, loc,    \* per task: program counter and local variables
    reports     \* requests sent to the media server, in order

session == <<currentPlayer, playerItemId, mpvIPCPath, lastPosition, videoDuration,
             playlist, playlistPosition, embyServerURL, embyUserId, embyToken>>
vars == <<currentPlayer, currentPlayerMu, playerItemId, mpvIPCPath, lastPosition,
          videoDuration, playlist, playlistPosition, embyServerURL, embyUserId,
          embyToken, proc, launched, moves, pc, loc, reports>>

\* a launch request with the configuration the handler reads for it: kind
\* (play or playlist), config.Player, the item ids and paths, the
\* credentials, the resume flag, config.URLEncode and config.PathMappings
NoReq == [kind |-> "", key |-> "", items |-> <<>>, paths |-> <<>>,
          creds |-> NoCreds, resume |-> FALSE, urlEncode |-> FALSE,
          mappings |-> <<>>]

\* exe and args are what exec.Command got; req and stored (the position the
\* media server returned, 0 without a lookup) are history, read by no action
NoProc == [state |-> "none", kind |-> "", key |-> "", ipcPath |-> "", items |-> <<>>,
           serverURL |-> "", userId |-> "", token |-> "", idx |-> 0,
           trackedAtExit |-> FALSE, cleared |-> FALSE,
           exe |-> "", args |-> <<>>, req |-> NoReq, stored |-> 0]

\* locals of a task: cmd, pipePath (handlers, getMpvPlaybackInfo), val (the
\* value an IPC query returned), lastPos, newPos, plist (monitorPlaylist),
\* ret (where the reporter returns to), quit and killed (what /api/stop did)
\* status is the MpvStatus that getMpvPlaybackInfo returns to /api/status
NoStatus == [Playing |-> FALSE, Paused |-> FALSE, Position |-> 0, Duration |-> 0]
NoLoc == [cmd |-> NoCmd, pipePath |-> "", val |-> 0, lastPos |-> 0, newPos |-> 0,
          plist |-> <<>>, ret |-> "", quit |-> "none", killed |-> FALSE,
          status |-> NoStatus, req |-> NoReq, file |-> ""]

\* The state in which main is at `mainPc` and, before loadConfig, finds the
\* configuration file in the condition `file`.
StartState(mainPc, file) ==
    /\ currentPlayer = NoCmd
    /\ currentPlayerMu = NoTask
    /\ playerItemId = ""
    /\ mpvIPCPath = ""
    /\ lastPosition = 0
    /\ videoDuration = 0
    /\ playlist = <<>>
    /\ playlistPosition = 0
    /\ embyServerURL = ""
    /\ embyUserId = ""
    /\ embyToken = ""
    /\ proc = [p \in Procs |-> NoProc]
    /\ launched = 0
    /\ moves = 0
    /\ pc = [t \in Tasks |-> IF t \in Handlers THEN "idle"
                              ELSE IF t = Main THEN mainPc ELSE "unborn"]
    /\ loc = [t \in Tasks |-> IF t = Main THEN [NoLoc EXCEPT !.file = file] ELSE NoLoc]
    /\ reports = <<>>

\* the daemon has started and serves requests
Init == StartState("serving", "")

(* ------------------------------ startup -------------------------------- *)
\* what os.ReadFile(configPath) finds
ConfigFiles == {"missing", "valid", "malformed", "unreadable"}

\* main before loadConfig
InitBoot == \E file \in ConfigFiles : StartState("boot", file)

(* ------------------------------ helpers -------------------------------- *)
Alive(p) == proc[p].state \in {"running", "quitting"}
\* The process that serves the well-known IPC endpoint: every mpv binds the
\* same socket path and replaces the socket of an earlier one, so the path
\* reaches the mpv started last, while it lives.
Listeners ==
    {p \in Procs : /\ Alive(p)
                    /\ proc[p].ipcPath # ""
                    /\ \A q \in Procs : q > p => proc[q].ipcPath = ""}
Goto(t, l) == pc' = [pc EXCEPT ![t] = l]
SetLoc(t, r) == loc' = [loc EXCEPT ![t] = r]

\* currentPlayerMu.Lock(): blocks until the mutex is free
Lock(t, here, next) ==
    /\ pc[t] = here
    /\ currentPlayerMu = NoTask
    /\ currentPlayerMu' = t
    /\ Goto(t, next)
    /\ UNCHANGED <<session, proc, launched, moves, loc, reports>>

\* variant: the critical section ends without releasing the mutex
KeepLocked(t) == currentPlayerMu' = currentPlayerMu

\* currentPlayerMu.Unlock()
Unlock(t) == currentPlayerMu' = NoTask

(* ------------------------------ loadConfig ----------------------------- *)
\* loadConfig returns nil: the file was read and decoded, or it did not
\* exist and the default configuration was written
LoadConfigOk ==
    /\ pc[Main] = "boot"
    /\ loc[Main].file \in {"valid", "missing"}
    /\ Goto(Main, "serving")
    /\ UNCHANGED <<session, currentPlayerMu, proc, launched, moves, loc, reports>>

\* loadConfig returns an error (ReadFile other than not-exist, Unmarshal,
\* or the write of the default file) and main ends in log.Fatalf
LoadConfigFatal(writable) ==
    /\ pc[Main] = "boot"
    /\ \/ loc[Main].file \in {"malformed", "unreadable"}
       \/ loc[Main].file = "missing" /\ ~writable
    /\ Goto(Main, "fatal")
    /\ UNCHANGED <<session, currentPlayerMu, proc, launched, moves, loc, reports>>

\* the HTTP server accepts requests
Serving == pc[Main] = "serving"

(* --------------------------- path translation -------------------------- *)
\* A path, a pattern or a replacement is a sequence of one-character strings.
\* strings.ReplaceAll(s, old, new) for a non-empty old: the occurrences are
\* found from the left and do not overlap
RECURSIVE ReplaceAll(_, _, _)
ReplaceAll(s, old, new) ==
    IF Len(s) < Len(old) THEN s
    ELSE IF SubSeq(s, 1, Len(old)) = old
            THEN new \o ReplaceAll(SubSeq(s, Len(old) + 1, Len(s)), old, new)
            ELSE <<Head(s)>> \o ReplaceAll(Tail(s), old, new)

\* strings.ReplaceAll(result, "/", `\`)
Backslashed(s) == ReplaceAll(s, <<"/">>, <<"\\">>)

Contains(s, c) == \E i \in 1..Len(s) : s[i] = c
HasPrefix(s, prefix) ==
    Len(prefix) <= Len(s) /\ SubSeq(s, 1, Len(prefix)) = prefix
HasSuffix(s, suffix) ==
    Len(suffix) <= Len(s) /\ SubSeq(s, Len(s) - Len(suffix) + 1, Len(s)) = suffix

\* wildcardToRegex: the pattern read from the left, "**" before "*"; the
\* result is ^ tokens (.*) $ with "**" for (.*?), "*" for ([^/]*) and every
\* other character for itself (escaped where the regexp syntax needs it)
RECURSIVE wildcardToRegex(_)
wildcardToRegex(pattern) ==
    IF pattern = <<>> THEN <<>>
    ELSE IF Len(pattern) >= 2 /\ pattern[1] = "*" /\ pattern[2] = "*"
            THEN <<"**">> \o wildcardToRegex(SubSeq(pattern, 3, Len(pattern)))
            ELSE <<pattern[1]>> \o wildcardToRegex(Tail(pattern))

\* variant: "*" runs over separators too
SegmentLenAny(s) == Len(s)

\* the longest prefix of s without a '/'
RECURSIVE SegmentLen(_)
SegmentLen(s) == IF s = <<>> \/ Head(s) = "/" THEN 0 ELSE 1 + SegmentLen(Tail(s))

NoMatch == [ok |-> FALSE, groups |-> <<>>]
SetMax(S) == CHOOSE n \in S : \A m \in S : m <= n
SetMin(S) == CHOOSE n \in S : \A m \in S : n <= m

\* re.FindStringSubmatch(path) for a regexp made by wildcardToRegex: the
\* leftmost-first match of the anchored expression, "*" greedy, "**" lazy;
\* groups are the captures in order, the remainder of the path last
RECURSIVE FindStringSubmatch(_, _)
FindStringSubmatch(re, s) ==
    IF re = <<>> THEN [ok |-> TRUE, groups |-> <<s>>]
    ELSE IF Head(re) \in {"*", "**"}
            THEN LET most == IF Head(re) = "*" THEN SegmentLen(s) ELSE Len(s)
                     fits == {n \in 0..most :
                                FindStringSubmatch(Tail(re),
                                                   SubSeq(s, n + 1, Len(s))).ok}
                 IN IF fits = {} THEN NoMatch
                    ELSE LET n == IF Head(re) = "*" THEN SetMax(fits)
                                                    ELSE SetMin(fits)
                             m == FindStringSubmatch(Tail(re),
                                                     SubSeq(s, n + 1, Len(s)))
                         IN [ok |-> TRUE,
                             groups |-> <<SubSeq(s, 1, n)>> \o m.groups]
            ELSE IF s # <<>> /\ Head(s) = Head(re)
                    THEN FindStringSubmatch(Tail(re), Tail(s))
                    ELSE NoMatch

\* fmt.Sprintf("{%d}", i) for the group numbers that occur
GroupRef(i) == <<"{", ToString(i), "}">>

\* result = strings.ReplaceAll(result, "{i}", matches[i]) for i = from..n-1
RECURSIVE ExpandGroups(_, _, _)
ExpandGroups(result, groups, from) ==
    IF from > Len(groups) - 1 THEN result
    ELSE ExpandGroups(ReplaceAll(result, GroupRef(from), groups[from]),
                      groups, from + 1)

\* variant: the prefix rule keeps the matched prefix
applyPrefixKeeping(path, mapping) ==
    IF HasPrefix(path, mapping.match)
       THEN [out |-> mapping.replace \o path, matched |-> TRUE]
       ELSE [out |-> path, matched |-> FALSE]

\* applyMapping, case "prefix" and the default case
applyPrefix(path, mapping) ==
    IF HasPrefix(path, mapping.match)
       THEN [out |-> mapping.replace \o SubSeq(path, Len(mapping.match) + 1, Len(path)),
             matched |-> TRUE]
       ELSE [out |-> path, matched |-> FALSE]

\* a byte that is part of no UTF-8 encoding
BadByte == "0xFF"

\* regexp.Compile on the output of wildcardToRegex: every character of the
\* regexp syntax was escaped, so the only error left is invalid UTF-8
WildcardCompiles(pattern) == ~Contains(pattern, BadByte)

\* applyMapping, case "wildcard"
applyWildcard(path, mapping) ==
    LET m == IF WildcardCompiles(mapping.match)
                THEN FindStringSubmatch(wildcardToRegex(mapping.match), path)
                ELSE NoMatch
    IN IF m.ok
          THEN LET remainder == m.groups[Len(m.groups)]
                   result == ExpandGroups(mapping.replace, m.groups, 1)
                   sep == IF /\ Len(remainder) > 0
                             /\ ~HasSuffix(result, <<"/">>)
                             /\ ~HasSuffix(result, <<"\\">>)
                             THEN <<"/">> ELSE <<>>
               IN [out |-> result \o sep \o remainder, matched |-> TRUE]
          ELSE [out |-> path, matched |-> FALSE]

\* regexp.Compile(mapping.Match) for patterns of literal characters and
\* parentheses: "missing closing )" and "unexpected )" are the errors, and
\* invalid UTF-8
RECURSIVE Balanced(_, _)
Balanced(pattern, depth) ==
    IF pattern = <<>> THEN depth = 0
    ELSE IF Head(pattern) = "(" THEN Balanced(Tail(pattern), depth + 1)
    ELSE IF Head(pattern) = ")" THEN depth > 0 /\ Balanced(Tail(pattern), depth - 1)
    ELSE Balanced(Tail(pattern), depth)

RegexCompiles(pattern) == Balanced(pattern, 0) /\ ~Contains(pattern, BadByte)

\* the literal a compiled pattern of literals and groups stands for
Literal(pattern) == SelectSeq(pattern, LAMBDA c : c \notin {"(", ")"})

Occurs(lit, s) == \E i \in 0..(Len(s) - Len(lit)) : SubSeq(s, i + 1, i + Len(lit)) = lit

\* re.ReplaceAllString for the empty pattern: a match before every character
\* and at the end
RECURSIVE Interleave(_, _)
Interleave(s, new) ==
    IF s = <<>> THEN new ELSE new \o <<Head(s)>> \o Interleave(Tail(s), new)

\* re.ReplaceAllString(path, mapping.Replace) for a literal pattern and a
\* replacement without '$'
ReplaceAllString(s, lit, new) ==
    IF lit = <<>> THEN Interleave(s, new) ELSE ReplaceAll(s, lit, new)

\* applyMapping, case "regex"
applyRegex(path, mapping) ==
    IF RegexCompiles(mapping.match) /\ Occurs(Literal(mapping.match), path)
       THEN [out |-> ReplaceAllString(path, Literal(mapping.match), mapping.replace),
             matched |-> TRUE]
       ELSE [out |-> path, matched |-> FALSE]

\* variant: a pattern that does not compile ends the evaluation of the rules
applyMappingStopsAtInvalid(path, mapping) ==
    IF mapping.type = "wildcard"
       THEN IF WildcardCompiles(mapping.match) THEN applyWildcard(path, mapping)
                                               ELSE [out |-> path, matched |-> TRUE]
    ELSE IF mapping.type = "regex"
       THEN IF RegexCompiles(mapping.match) THEN applyRegex(path, mapping)
                                            ELSE [out |-> path, matched |-> TRUE]
    ELSE applyPrefix(path, mapping)

applyMapping(path, mapping) ==
    IF mapping.type = "wildcard" THEN applyWildcard(path, mapping)
    ELSE IF mapping.type = "regex" THEN applyRegex(path, mapping)
    ELSE applyPrefix(path, mapping)

\* variant: a later matching rule is applied to the output of an earlier one
RECURSIVE translatePathChained(_, _)
translatePathChained(path, mappings) ==
    IF mappings = <<>> THEN Backslashed(path)
    ELSE translatePathChained(applyMapping(path, Head(mappings)).out, Tail(mappings))

\* variant: the separators are converted before the rules are tried
RECURSIVE translatePathConvertFirst(_, _)
translatePathConvertFirst(path, mappings) ==
    IF mappings = <<>> THEN path
    ELSE LET r == applyMapping(Backslashed(path), Head(mappings))
         IN IF r.matched THEN r.out
                         ELSE translatePathConvertFirst(path, Tail(mappings))

\* translatePath over config.PathMappings: the first mapping that matches
RECURSIVE translatePath(_, _)
translatePath(path, mappings) ==
    IF mappings = <<>> THEN Backslashed(path)
    ELSE LET r == applyMapping(path, Head(mappings))
         IN IF r.matched THEN Backslashed(r.out)
                         ELSE translatePath(path, Tail(mappings))

\* url.PathEscape on the characters used here: letters and ':' stay, the
\* separators and the space become %XX
RECURSIVE PathEscape(_)
PathEscape(s) ==
    IF s = <<>> THEN <<>>
    ELSE (CASE Head(s) = "/"  -> <<"%", "2", "F">>
            [] Head(s) = "\\" -> <<"%", "5", "C">>
            [] Head(s) = " "  -> <<"%", "2", "0">>
            [] OTHER          -> <<Head(s)>>) \o PathEscape(Tail(s))

(* ------------------- /api/play and /api/playlist ---------------------- *)
\* the IPC endpoint handed to the player: only for the key "mpv"
IpcPathFor(key) == IF key = "mpv" THEN IPCPath ELSE ""

\* variant: a key the table does not hold is taken as the executable
PlayerPathNoFallback(key) == key

\* the players table of defaultConfig, and the fallback for a key it does
\* not hold: the executable and the base arguments
ConfiguredPlayers == {"mpv", "vlc"}
PlayerPath(key) == IF key \in ConfiguredPlayers THEN key ELSE "mpv"
BaseArgs(key) == IF key = "vlc" THEN <<(<<"--fullscreen">>)>> ELSE <<(<<"--fs">>)>>

\* An argument is a sequence of strings that, put together, give its text.
\* "--input-ipc-server="+ipcPath
IpcArg == <<"--input-ipc-server=", IPCPath>>
\* fmt.Sprintf("--start=%.1f", startSeconds), for whole seconds
StartArg(startSeconds) == <<"--start=", ToString(startSeconds), ".0">>

\* variant: the start argument is given to every player
MpvArgsAnyPlayer(key, startSeconds) ==
    (IF key = "mpv" THEN <<IpcArg>> ELSE <<>>)
       \o (IF startSeconds > 0 THEN <<StartArg(startSeconds)>> ELSE <<>>)

\* if playerKey == "mpv" { args += ipc argument; if startSeconds > 0 { args += start } }
MpvArgs(key, startSeconds) ==
    IF key = "mpv"
       THEN <<IpcArg>> \o (IF startSeconds > 0 THEN <<StartArg(startSeconds)>>
                                                ELSE <<>>)
       ELSE <<>>

\* variant: the paths are handed over last to first
PathsForPlayerReversed(req) ==
    [i \in 1..Len(req.paths) |->
        LET translated == translatePath(req.paths[Len(req.paths) + 1 - i], req.mappings)
        IN IF req.urlEncode THEN PathEscape(translated) ELSE translated]

\* translatePath of every path of the request, url.PathEscape if configured
PathsForPlayer(req) ==
    [i \in 1..Len(req.paths) |->
        LET translated == translatePath(req.paths[i], req.mappings)
        IN IF req.urlEncode THEN PathEscape(translated) ELSE translated]

\* args := append([]string{}, playerConfig.Args...) and the appends after it
PlayerArgs(req, startSeconds) ==
    BaseArgs(req.key) \o MpvArgs(req.key, startSeconds) \o PathsForPlayer(req)

\* exec.Command(playerConfig.Path, args...) and a successful cmd.Start()
Spawn(req, startSeconds, stored) ==
    /\ launched' = launched + 1
    /\ proc' = [proc EXCEPT ![launched + 1] =
                  [state |-> "running", kind |-> req.kind, key |-> req.key,
                   ipcPath |-> IpcPathFor(req.key), items |-> req.items,
                   serverURL |-> req.creds.serverURL, userId |-> req.creds.userId,
                   token |-> req.creds.token, idx |-> 0, trackedAtExit |-> FALSE,
                   cleared |-> FALSE,
                   exe |-> PlayerPath(req.key),
                   args |-> PlayerArgs(req, startSeconds),
                   req |-> req, stored |-> stored]]
    /\ SetLoc(LaunchH, [NoLoc EXCEPT !.cmd = launched + 1])
    /\ Goto(LaunchH, "p_lock")
    /\ UNCHANGED <<session, currentPlayerMu, moves, reports>>

\* a request without resume, with one fixed path per item and a
\* configuration without path mappings and without url_encode
MediaPath == <<"/", "m">>
PlainRequest(kind, key, items, creds) ==
    [kind |-> kind, key |-> key, items |-> items,
     paths |-> [i \in 1..Len(items) |-> MediaPath],
     creds |-> creds, resume |-> FALSE, urlEncode |-> FALSE, mappings |-> <<>>]

\* variant: a request is launched only while no process is tracked
StartPlayerIfFree(limit, kind, key, items, creds) ==
    /\ pc[LaunchH] = "idle"
    /\ launched < limit
    /\ currentPlayer = NoCmd
    /\ Spawn(PlainRequest(kind, key, items, creds), 0, 0)

\* playHandler / playlistHandler up to a successful cmd.Start(): the request
\* is parsed, the argument list is built and the process is spawned.  At
\* most `limit` processes are spawned in one run.
StartPlayer(limit, kind, key, items, creds) ==
    /\ pc[LaunchH] = "idle"
    /\ launched < limit
    /\ Spawn(PlainRequest(kind, key, items, creds), 0, 0)

\* resumeFlag == "1" && serverURL != "" && userId != "" && token != "" && itemId != ""
ResumeWanted(req) ==
    /\ req.resume
    /\ req.creds.serverURL # "" /\ req.creds.userId # "" /\ req.creds.token # ""
    /\ req.items[1] # ""

\* a launch request that makes no resume lookup
LaunchDirect(limit, req) ==
    /\ pc[LaunchH] = "idle"
    /\ launched < limit
    /\ ~ResumeWanted(req)
    /\ Spawn(req, 0, 0)

\* the handler calls getStoredPosition and waits for it
ResumeLookup(limit, req) ==
    /\ pc[LaunchH] = "idle"
    /\ launched < limit
    /\ ResumeWanted(req)
    /\ SetLoc(LaunchH, [NoLoc EXCEPT !.req = req])
    /\ Goto(LaunchH, "p_resume")
    /\ UNCHANGED <<session, currentPlayerMu, proc, launched, moves, reports>>

\* getStoredPosition returns PlaybackPositionTicks / 10000000.0, or 0 after
\* an error, a status other than 200 or an undecodable body
TicksPerSecond == 10000000
StoredTicks == {0, 5 * TicksPerSecond, -1 * TicksPerSecond}

\* if storedPosition > 0 { startSeconds = storedPosition }; then the launch
ResumeLookupReturns(ticks) ==
    /\ pc[LaunchH] = "p_resume"
    /\ LET storedPosition == ticks \div TicksPerSecond
       IN Spawn(loc[LaunchH].req, IF storedPosition > 0 THEN storedPosition ELSE 0,
                storedPosition)

PlayRequest(limit, key, itemId, creds) ==
    StartPlayer(limit, "play", key, <<itemId>>, creds)

PlaylistRequest(limit, key, items, creds) ==
    /\ Len(items) > 0
    /\ StartPlayer(limit, "playlist", key, items, creds)

\* variant: the handler resets the session's item before it answers the error
LaunchErrorDropsItem(code) ==
    /\ pc[LaunchH] = "idle"
    /\ SetLoc(LaunchH, [NoLoc EXCEPT !.val = code])
    /\ Goto(LaunchH, "p_err")
    /\ playerItemId' = ""
    /\ UNCHANGED <<currentPlayer, mpvIPCPath, lastPosition, videoDuration, playlist,
                   playlistPosition, embyServerURL, embyUserId, embyToken,
                   currentPlayerMu, proc, launched, moves, reports>>

\* http.Error(w, ..., code); return: the handler leaves before the tracking
\* block and before any go statement
LaunchError(code) ==
    /\ pc[LaunchH] = "idle"
    /\ SetLoc(LaunchH, [NoLoc EXCEPT !.val = code])
    /\ Goto(LaunchH, "p_err")
    /\ UNCHANGED <<session, currentPlayerMu, proc, launched, moves, reports>>

\* playHandler: path == ""
PlayMissingPath(path) == path = "" /\ LaunchError(400)

\* playlistHandler: r.Method != "POST" (OPTIONS was answered before)
PlaylistMethodNotAllowed(method) ==
    method \notin {"POST", "OPTIONS"} /\ LaunchError(405)

\* playlistHandler: the body does not decode
PlaylistInvalidJSON(method, decodes) ==
    method = "POST" /\ ~decodes /\ LaunchError(400)

\* playlistHandler: len(req.Items) == 0
PlaylistEmpty(method, decodes, items) ==
    method = "POST" /\ decodes /\ Len(items) = 0 /\ LaunchError(400)

\* either handler: cmd.Start() returns an error, no process exists
StartFails == LaunchError(500)

\* the error response is written and the handler is over
LaunchErrorSent ==
    /\ pc[LaunchH] = "p_err"
    /\ SetLoc(LaunchH, NoLoc)
    /\ Goto(LaunchH, "idle")
    /\ UNCHANGED <<session, currentPlayerMu, proc, launched, moves, reports>>

LaunchLock == Lock(LaunchH, "p_lock", "p_cs")

\* "Track the current player process" (play) / "Track state" (playlist), then
\* go reportPlaybackStart() and the exit watcher / monitorPlaylist, then the
\* response
TrackPlayer ==
    /\ pc[LaunchH] = "p_cs"
    /\ LET p == loc[LaunchH].cmd
           r == proc[p]
       IN /\ currentPlayer' = p
          /\ playerItemId' = r.items[1]
          /\ mpvIPCPath' = r.ipcPath
          /\ lastPosition' = 0
          /\ videoDuration' = 0
          /\ embyServerURL' = r.serverURL
          /\ embyUserId' = r.userId
          /\ embyToken' = r.token
          /\ IF r.kind = "playlist"
                THEN playlist' = r.items /\ playlistPosition' = 0
                ELSE UNCHANGED <<playlist, playlistPosition>>
          /\ Unlock(LaunchH)
          /\ pc' = [pc EXCEPT ![LaunchH] = "idle",
                              ![Starter(p)] = "ps_lock",
                              ![Watcher(p)] = IF r.kind = "playlist" THEN "m_select"
                                                                     ELSE "wait"]
          /\ loc' = [loc EXCEPT ![LaunchH] = NoLoc,
                                ![Starter(p)] = [NoLoc EXCEPT !.ret = "done"]]
    /\ UNCHANGED <<proc, launched, moves, reports>>

(* --------------------------- the player -------------------------------- *)
\* mpv moves to another playlist entry (end of file, or the user's next/prev);
\* idx is what it answers to "playlist-pos", so only players serving the IPC
\* endpoint are followed
PlayerMove(p, i) ==
    /\ p \in Listeners
    /\ moves < MaxMoves
    /\ i \in 0..(Len(proc[p].items) - 1)
    /\ i # proc[p].idx
    /\ proc' = [proc EXCEPT ![p].idx = i]
    /\ moves' = moves + 1
    /\ UNCHANGED <<session, currentPlayerMu, launched, pc, loc, reports>>

\* the process ends: end of the last file, the user closing the window, a
\* quit command taking effect
PlayerExit(p) ==
    /\ Alive(p)
    /\ proc' = [proc EXCEPT ![p].state = "exited",
                            ![p].trackedAtExit = (currentPlayer = p)]
    /\ UNCHANGED <<session, currentPlayerMu, launched, moves, pc, loc, reports>>

(* ----------------------- Playback IPC Client --------------------------- *)
IpcError == [ok |-> FALSE, num |-> FALSE, val |-> 0, bool |-> FALSE, flag |-> FALSE]
IpcNull  == [ok |-> TRUE, num |-> FALSE, val |-> 0, bool |-> FALSE, flag |-> FALSE]
IpcNum(v) == [ok |-> TRUE, num |-> TRUE, val |-> v, bool |-> FALSE, flag |-> FALSE]
IpcBool(b) == [ok |-> TRUE, num |-> FALSE, val |-> 0, bool |-> TRUE, flag |-> b]

\* what the player q can answer to get_property.  A position before the end
\* of the file is represented by 0: the reporter only distinguishes it from
\* the duration.
PropertyValues(q, property) ==
    LET item == proc[q].items[proc[q].idx + 1]
    IN CASE property = "time-pos"     -> {0}
         [] property = "duration"     -> {MediaDuration(item)}
         [] property = "playlist-pos" -> {proc[q].idx, -1}

\* queryMpvProperty: connect, write, read one line.  It fails when nobody
\* serves the endpoint or the deadline passes; the data may be non-numeric.
QueryMpvProperty(pipePath, property) ==
    {IpcError} \cup
    UNION {{IpcNull} \cup
           (IF property = "pause"
               THEN {IpcBool(TRUE), IpcBool(FALSE)}
               ELSE {IpcNum(v) : v \in PropertyValues(q, property)}) :
           q \in Listeners}

(* getMpvPlaybackInfo, called by /api/status and by the exit handling *)
AfterGetInfo(t) == IF t = StatusH THEN "t_resp" ELSE "rs_lock"
\* only /api/status uses the MpvStatus returned; the exit handling drops it
StatusOf(t, st) == IF t = StatusH THEN st ELSE NoStatus

GetInfoLock(t) == Lock(t, "gm_lock", "gm_cs")

GetInfoReadPath(t) ==
    /\ pc[t] = "gm_cs"
    /\ Unlock(t)
    /\ IF mpvIPCPath = ""
          THEN Goto(t, AfterGetInfo(t)) /\ UNCHANGED loc
          ELSE Goto(t, "gm_pos") /\ SetLoc(t, [loc[t] EXCEPT !.pipePath = mpvIPCPath])
    /\ UNCHANGED <<session, proc, launched, moves, reports>>

\* pos, err := queryMpvProperty(pipePath, "time-pos")
GetInfoTimePos(t, r) ==
    /\ pc[t] = "gm_pos"
    /\ r \in QueryMpvProperty(loc[t].pipePath, "time-pos")
    /\ LET playing == StatusOf(t, [NoStatus EXCEPT !.Playing = TRUE])
       IN IF ~r.ok
             THEN /\ Goto(t, AfterGetInfo(t))
                  /\ SetLoc(t, [loc[t] EXCEPT !.pipePath = "", !.status = NoStatus])
             ELSE IF r.num
                     THEN /\ Goto(t, "gm_setpos")
                          /\ SetLoc(t, [loc[t] EXCEPT !.val = r.val, !.status = playing])
                     ELSE /\ Goto(t, "gm_dur")
                          /\ SetLoc(t, [loc[t] EXCEPT !.status = playing])
    /\ UNCHANGED <<session, currentPlayerMu, proc, launched, moves, reports>>

\* status.Position = p; lastPosition = p, written after the mutex was released
GetInfoSetPosition(t) ==
    /\ pc[t] = "gm_setpos"
    /\ lastPosition' = loc[t].val
    /\ SetLoc(t, [loc[t] EXCEPT
                    !.val = 0,
                    !.status = StatusOf(t, [@ EXCEPT !.Position = loc[t].val])])
    /\ Goto(t, "gm_dur")
    /\ UNCHANGED <<currentPlayer, playerItemId, mpvIPCPath, videoDuration, playlist,
                   playlistPosition, embyServerURL, embyUserId, embyToken,
                   currentPlayerMu, proc, launched, moves, reports>>

\* dur, _ := queryMpvProperty(pipePath, "duration")
GetInfoDuration(t, r) ==
    /\ pc[t] = "gm_dur"
    /\ r \in QueryMpvProperty(loc[t].pipePath, "duration")
    /\ IF r.ok /\ r.num
          THEN Goto(t, "gm_setdur") /\ SetLoc(t, [loc[t] EXCEPT !.val = r.val])
          ELSE Goto(t, "gm_pause") /\ UNCHANGED loc
    /\ UNCHANGED <<session, currentPlayerMu, proc, launched, moves, reports>>

\* status.Duration = d; videoDuration = d, written after the mutex was released
GetInfoSetDuration(t) ==
    /\ pc[t] = "gm_setdur"
    /\ videoDuration' = loc[t].val
    /\ SetLoc(t, [loc[t] EXCEPT
                    !.val = 0,
                    !.status = StatusOf(t, [@ EXCEPT !.Duration = loc[t].val])])
    /\ Goto(t, "gm_pause")
    /\ UNCHANGED <<currentPlayer, playerItemId, mpvIPCPath, lastPosition, playlist,
                   playlistPosition, embyServerURL, embyUserId, embyToken,
                   currentPlayerMu, proc, launched, moves, reports>>

\* paused, _ := queryMpvProperty(pipePath, "pause"); return status, nil
GetInfoPause(t, r) ==
    /\ pc[t] = "gm_pause"
    /\ r \in QueryMpvProperty(loc[t].pipePath, "pause")
    /\ Goto(t, AfterGetInfo(t))
    /\ SetLoc(t, [loc[t] EXCEPT
                    !.pipePath = "",
                    !.status = StatusOf(t, [@ EXCEPT !.Paused = r.ok /\ r.bool /\ r.flag])])
    /\ UNCHANGED <<session, currentPlayerMu, proc, launched, moves, reports>>

(* --------------------------- Progress Reporter ------------------------- *)
\* variant: the token is not looked at
HasItemAndServer(itemId, serverURL, token) ==
    itemId # "" /\ serverURL # ""

HasCredentials(itemId, serverURL, token) ==
    itemId # "" /\ serverURL # "" /\ token # ""

\* A request to the media server: what it carries (item, pos, serverURL,
\* token) and, for the properties, who sent it (by), on which path (cause:
\* the return address of the call) and which process was tracked (cur).
Report(kind, t, position) ==
    [kind |-> kind, item |-> playerItemId, pos |-> position,
     serverURL |-> embyServerURL, token |-> embyToken, by |-> t,
     cause |-> loc[t].ret, cur |-> currentPlayer]

\* reportPlaybackStopped: read the session under the mutex, then POST
\* /Sessions/Playing/Stopped unless a credential is missing
StoppedLock(t) == Lock(t, "rs_lock", "rs_cs")

StoppedRead(t) ==
    /\ pc[t] = "rs_cs"
    /\ Unlock(t)
    /\ IF HasCredentials(playerItemId, embyServerURL, embyToken)
          THEN /\ reports' = Append(reports, Report("stopped", t, lastPosition))
               /\ Goto(t, "rs_http")
          ELSE /\ UNCHANGED reports
               /\ Goto(t, loc[t].ret)
    /\ UNCHANGED <<session, proc, launched, moves, loc>>

\* client.Do returns (any status, or an error: both are only logged)
StoppedDone(t) ==
    /\ pc[t] = "rs_http"
    /\ Goto(t, loc[t].ret)
    /\ UNCHANGED <<session, currentPlayerMu, proc, launched, moves, loc, reports>>

\* What client.Do can give a reporter: 0 stands for err != nil (no
\* connection, timeout), the others are the status code of the response.
ReportOutcomes == {0, 204, 500}
Success(code) == code >= 200 /\ code < 300

\* client.Do returns in reportPlaybackStopped, with the outcome kept: the
\* function is about to log it
StoppedOutcome(t, code) ==
    /\ pc[t] = "rs_http"
    /\ SetLoc(t, [loc[t] EXCEPT !.val = code])
    /\ Goto(t, "rs_log")
    /\ UNCHANGED <<session, currentPlayerMu, proc, launched, moves, reports>>

\* variant: a reporter whose request failed ends the goroutine that called it
StoppedLoggedFatal(t) ==
    /\ pc[t] = "rs_log"
    /\ SetLoc(t, [loc[t] EXCEPT !.val = 0])
    /\ Goto(t, IF Success(loc[t].val) THEN loc[t].ret ELSE "done")
    /\ UNCHANGED <<session, currentPlayerMu, proc, launched, moves, reports>>

\* log.Printf of the error, of "saved position" or of "server returned",
\* then the function returns
StoppedLogged(t) ==
    /\ pc[t] = "rs_log"
    /\ SetLoc(t, [loc[t] EXCEPT !.val = 0])
    /\ Goto(t, loc[t].ret)
    /\ UNCHANGED <<session, currentPlayerMu, proc, launched, moves, reports>>

\* reportPlaybackStart: the same for POST /Sessions/Playing
StartLock(t) == Lock(t, "ps_lock", "ps_cs")

StartRead(t) ==
    /\ pc[t] = "ps_cs"
    /\ Unlock(t)
    /\ IF HasCredentials(playerItemId, embyServerURL, embyToken)
          THEN /\ reports' = Append(reports, Report("started", t, 0))
               /\ Goto(t, "ps_http")
          ELSE /\ UNCHANGED reports
               /\ Goto(t, loc[t].ret)
    /\ UNCHANGED <<session, proc, launched, moves, loc>>

StartDone(t) ==
    /\ pc[t] = "ps_http"
    /\ Goto(t, loc[t].ret)
    /\ UNCHANGED <<session, currentPlayerMu, proc, launched, moves, loc, reports>>

\* client.Do returns in reportPlaybackStart, with the outcome kept
StartOutcome(t, code) ==
    /\ pc[t] = "ps_http"
    /\ SetLoc(t, [loc[t] EXCEPT !.val = code])
    /\ Goto(t, "ps_log")
    /\ UNCHANGED <<session, currentPlayerMu, proc, launched, moves, reports>>

\* log.Printf of the error or of the response, then the function returns
StartLogged(t) ==
    /\ pc[t] = "ps_log"
    /\ SetLoc(t, [loc[t] EXCEPT !.val = 0])
    /\ Goto(t, loc[t].ret)
    /\ UNCHANGED <<session, currentPlayerMu, proc, launched, moves, reports>>

\* time.Now().Unix() as one reporter after the other reads it: the second
\* of the report before, or a later one
LastUnix == IF reports = <<>> THEN 0 ELSE reports[Len(reports)].PlaySessionId
Clock == {LastUnix, LastUnix + 1}

\* the body of the request with its "PlaySessionId":
\* fmt.Sprintf("jellyfin-external-player-%d", time.Now().Unix())
ReportAt(kind, t, position, now) ==
    [kind |-> kind, item |-> playerItemId, pos |-> position,
     serverURL |-> embyServerURL, token |-> embyToken, by |-> t,
     cause |-> loc[t].ret, cur |-> currentPlayer, PlaySessionId |-> now]

\* reportPlaybackStopped as in StoppedRead, the play-session id kept
StoppedReadAt(t, now) ==
    /\ pc[t] = "rs_cs"
    /\ Unlock(t)
    /\ IF HasCredentials(playerItemId, embyServerURL, embyToken)
          THEN /\ reports' = Append(reports, ReportAt("stopped", t, lastPosition, now))
               /\ Goto(t, "rs_http")
          ELSE /\ UNCHANGED reports
               /\ Goto(t, loc[t].ret)
    /\ UNCHANGED <<session, proc, launched, moves, loc>>

\* reportPlaybackStart as in StartRead, the play-session id kept
StartReadAt(t, now) ==
    /\ pc[t] = "ps_cs"
    /\ Unlock(t)
    /\ IF HasCredentials(playerItemId, embyServerURL, embyToken)
          THEN /\ reports' = Append(reports, ReportAt("started", t, 0, now))
               /\ Goto(t, "ps_http")
          ELSE /\ UNCHANGED reports
               /\ Goto(t, loc[t].ret)
    /\ UNCHANGED <<session, proc, launched, moves, loc>>

(* ------------------ exit watcher of /api/play -------------------------- *)
\* cmd.Wait() returns
WaitReturns(p) ==
    /\ pc[Watcher(p)] = "wait"
    /\ proc[p].state = "exited"
    /\ Goto(Watcher(p), "w_chk")
    /\ UNCHANGED <<session, currentPlayerMu, proc, launched, moves, loc, reports>>

\* variant: the watcher goes from cmd.Wait() to the cleanup, reporting nothing
WatcherSkipReport(p) ==
    /\ pc[Watcher(p)] = "w_chk"
    /\ Goto(Watcher(p), "cl_lock")
    /\ SetLoc(Watcher(p), [loc[Watcher(p)] EXCEPT !.ret = "cl_lock"])
    /\ UNCHANGED <<session, currentPlayerMu, proc, launched, moves, reports>>

\* if mpvIPCPath != "" { getMpvPlaybackInfo() }, read without the mutex
WatcherCheckIPC(p) ==
    /\ pc[Watcher(p)] = "w_chk"
    /\ Goto(Watcher(p), IF mpvIPCPath # "" THEN "gm_lock" ELSE "rs_lock")
    /\ SetLoc(Watcher(p), [loc[Watcher(p)] EXCEPT !.ret = "cl_lock"])
    /\ UNCHANGED <<session, currentPlayerMu, proc, launched, moves, reports>>

ClearLock(p) == Lock(Watcher(p), "cl_lock", "cl_cs")

\* variant: the cleanup leaves the token in place
ClearSessionKeepToken(p) ==
    /\ pc[Watcher(p)] = "cl_cs"
    /\ Unlock(Watcher(p))
    /\ IF currentPlayer = p
          THEN /\ currentPlayer' = NoCmd
               /\ playerItemId' = ""
               /\ mpvIPCPath' = ""
               /\ embyServerURL' = ""
               /\ embyUserId' = ""
               /\ IF proc[p].kind = "playlist"
                     THEN playlist' = <<>> /\ playlistPosition' = 0
                     ELSE UNCHANGED <<playlist, playlistPosition>>
          ELSE UNCHANGED <<currentPlayer, playerItemId, mpvIPCPath, embyServerURL,
                           embyUserId, playlist, playlistPosition>>
    /\ proc' = [proc EXCEPT ![p].cleared = (currentPlayer = p)]
    /\ Goto(Watcher(p), "done")
    /\ SetLoc(Watcher(p), NoLoc)
    /\ UNCHANGED <<embyToken, lastPosition, videoDuration, launched, moves, reports>>

\* variant: the cleanup does not compare the handle
ClearSessionAlways(p) ==
    /\ pc[Watcher(p)] = "cl_cs"
    /\ Unlock(Watcher(p))
    /\ currentPlayer' = NoCmd
    /\ playerItemId' = ""
    /\ mpvIPCPath' = ""
    /\ embyServerURL' = ""
    /\ embyUserId' = ""
    /\ embyToken' = ""
    /\ IF proc[p].kind = "playlist"
          THEN playlist' = <<>> /\ playlistPosition' = 0
          ELSE UNCHANGED <<playlist, playlistPosition>>
    /\ proc' = [proc EXCEPT ![p].cleared = (currentPlayer = p)]
    /\ Goto(Watcher(p), "done")
    /\ SetLoc(Watcher(p), NoLoc)
    /\ UNCHANGED <<lastPosition, videoDuration, launched, moves, reports>>

\* if currentPlayer == cmd { ... }: the fields the play watcher resets, and
\* the two more that monitorPlaylist resets
ClearSession(p) ==
    /\ pc[Watcher(p)] = "cl_cs"
    /\ Unlock(Watcher(p))
    /\ IF currentPlayer = p
          THEN /\ currentPlayer' = NoCmd
               /\ playerItemId' = ""
               /\ mpvIPCPath' = ""
               /\ embyServerURL' = ""
               /\ embyUserId' = ""
               /\ embyToken' = ""
               /\ IF proc[p].kind = "playlist"
                     THEN playlist' = <<>> /\ playlistPosition' = 0
                     ELSE UNCHANGED <<playlist, playlistPosition>>
          ELSE UNCHANGED <<currentPlayer, playerItemId, mpvIPCPath, embyServerURL,
                           embyUserId, embyToken, playlist, playlistPosition>>
    /\ proc' = [proc EXCEPT ![p].cleared = (currentPlayer = p)]
    /\ Goto(Watcher(p), "done")
    /\ SetLoc(Watcher(p), NoLoc)
    /\ UNCHANGED <<lastPosition, videoDuration, launched, moves, reports>>

(* ------------------------- monitorPlaylist ----------------------------- *)
\* case <-done: the player exited
SequencerDone(p) ==
    /\ pc[Watcher(p)] = "m_select"
    /\ proc[p].state = "exited"
    /\ Goto(Watcher(p), IF proc[p].ipcPath # "" THEN "gm_lock" ELSE "rs_lock")
    /\ SetLoc(Watcher(p), [NoLoc EXCEPT !.ret = "cl_lock"])
    /\ UNCHANGED <<session, currentPlayerMu, proc, launched, moves, reports>>

\* case <-ticker.C: without an IPC endpoint the tick is skipped
SequencerTick(p) ==
    /\ pc[Watcher(p)] = "m_select"
    /\ Goto(Watcher(p), IF proc[p].ipcPath = "" THEN "m_select" ELSE "m_poll")
    /\ UNCHANGED <<session, currentPlayerMu, proc, launched, moves, loc, reports>>

\* variant: a failed query ends the sequencer
SequencerPollGivesUp(p, r) ==
    /\ pc[Watcher(p)] = "m_poll"
    /\ r \in QueryMpvProperty(proc[p].ipcPath, "playlist-pos")
    /\ IF r.ok /\ r.num /\ r.val # loc[Watcher(p)].lastPos /\ r.val >= 0
          THEN /\ Goto(Watcher(p), "m_pl_lock")
               /\ SetLoc(Watcher(p), [loc[Watcher(p)] EXCEPT !.newPos = r.val])
          ELSE /\ Goto(Watcher(p), IF r.ok THEN "m_select" ELSE "done")
               /\ UNCHANGED loc
    /\ UNCHANGED <<session, currentPlayerMu, proc, launched, moves, reports>>

\* variant: a position equal to the last observed one is handled as a change
SequencerPollUnchanged(p, r) ==
    /\ pc[Watcher(p)] = "m_poll"
    /\ r \in QueryMpvProperty(proc[p].ipcPath, "playlist-pos")
    /\ IF r.ok /\ r.num /\ r.val >= 0
          THEN /\ Goto(Watcher(p), "m_pl_lock")
               /\ SetLoc(Watcher(p), [loc[Watcher(p)] EXCEPT !.newPos = r.val])
          ELSE /\ Goto(Watcher(p), "m_select")
               /\ UNCHANGED loc
    /\ UNCHANGED <<session, currentPlayerMu, proc, launched, moves, reports>>

\* variant: a negative position is handled as a change
SequencerPollNegative(p, r) ==
    /\ pc[Watcher(p)] = "m_poll"
    /\ r \in QueryMpvProperty(proc[p].ipcPath, "playlist-pos")
    /\ IF r.ok /\ r.num /\ r.val # loc[Watcher(p)].lastPos
          THEN /\ Goto(Watcher(p), "m_pl_lock")
               /\ SetLoc(Watcher(p), [loc[Watcher(p)] EXCEPT !.newPos = r.val])
          ELSE /\ Goto(Watcher(p), "m_select")
               /\ UNCHANGED loc
    /\ UNCHANGED <<session, currentPlayerMu, proc, launched, moves, reports>>

\* pos, err := queryMpvProperty(ipcPath, "playlist-pos"); newPos := int(posInt)
SequencerPoll(p, r) ==
    /\ pc[Watcher(p)] = "m_poll"
    /\ r \in QueryMpvProperty(proc[p].ipcPath, "playlist-pos")
    /\ IF r.ok /\ r.num /\ r.val # loc[Watcher(p)].lastPos /\ r.val >= 0
          THEN /\ Goto(Watcher(p), "m_pl_lock")
               /\ SetLoc(Watcher(p), [loc[Watcher(p)] EXCEPT !.newPos = r.val])
          ELSE /\ Goto(Watcher(p), "m_select")
               /\ UNCHANGED loc
    /\ UNCHANGED <<session, currentPlayerMu, proc, launched, moves, reports>>

SequencerPlaylistLock(p) == Lock(Watcher(p), "m_pl_lock", "m_pl_cs")

\* plist := playlist; if newPos < len(plist) { if lastPos >= 0 && lastPos < len(plist)
SequencerReadPlaylist(p) ==
    /\ pc[Watcher(p)] = "m_pl_cs"
    /\ Unlock(Watcher(p))
    /\ LET l == loc[Watcher(p)]
       IN IF l.newPos < Len(playlist)
             THEN /\ SetLoc(Watcher(p), [l EXCEPT !.plist = playlist])
                  /\ Goto(Watcher(p), IF l.lastPos >= 0 /\ l.lastPos < Len(playlist)
                                         THEN "m_prev_lock" ELSE "m_new_lock")
             ELSE /\ SetLoc(Watcher(p), [l EXCEPT !.newPos = 0])
                  /\ Goto(Watcher(p), "m_select")
    /\ UNCHANGED <<session, proc, launched, moves, reports>>

SequencerPreviousLock(p) == Lock(Watcher(p), "m_prev_lock", "m_prev_cs")

\* variant: the item at the new index is the one marked complete
SequencerMarkNewComplete(p) ==
    /\ pc[Watcher(p)] = "m_prev_cs"
    /\ Unlock(Watcher(p))
    /\ playerItemId' = loc[Watcher(p)].plist[loc[Watcher(p)].newPos + 1]
    /\ lastPosition' = videoDuration
    /\ SetLoc(Watcher(p), [loc[Watcher(p)] EXCEPT !.ret = "m_new_lock"])
    /\ Goto(Watcher(p), "rs_lock")
    /\ UNCHANGED <<currentPlayer, mpvIPCPath, videoDuration, playlist, playlistPosition,
                   embyServerURL, embyUserId, embyToken, proc, launched, moves,
                   reports>>

\* "Mark previous item as complete", then reportPlaybackStopped()
SequencerMarkComplete(p) ==
    /\ pc[Watcher(p)] = "m_prev_cs"
    /\ Unlock(Watcher(p))
    /\ playerItemId' = loc[Watcher(p)].plist[loc[Watcher(p)].lastPos + 1]
    /\ lastPosition' = videoDuration
    /\ SetLoc(Watcher(p), [loc[Watcher(p)] EXCEPT !.ret = "m_new_lock"])
    /\ Goto(Watcher(p), "rs_lock")
    /\ UNCHANGED <<currentPlayer, mpvIPCPath, videoDuration, playlist, playlistPosition,
                   embyServerURL, embyUserId, embyToken, proc, launched, moves,
                   reports>>

SequencerNewLock(p) == Lock(Watcher(p), "m_new_lock", "m_new_cs")

\* variant: the new item is tracked but its start is not reported
SequencerTrackNewSilent(p) ==
    /\ pc[Watcher(p)] = "m_new_cs"
    /\ Unlock(Watcher(p))
    /\ playlistPosition' = loc[Watcher(p)].newPos
    /\ playerItemId' = loc[Watcher(p)].plist[loc[Watcher(p)].newPos + 1]
    /\ lastPosition' = 0
    /\ videoDuration' = 0
    /\ SetLoc(Watcher(p), [loc[Watcher(p)] EXCEPT !.ret = "m_adv"])
    /\ Goto(Watcher(p), "m_adv")
    /\ UNCHANGED <<currentPlayer, mpvIPCPath, playlist, embyServerURL, embyUserId,
                   embyToken, proc, launched, moves, reports>>

\* "Start tracking new item", then reportPlaybackStart()
SequencerTrackNew(p) ==
    /\ pc[Watcher(p)] = "m_new_cs"
    /\ Unlock(Watcher(p))
    /\ playlistPosition' = loc[Watcher(p)].newPos
    /\ playerItemId' = loc[Watcher(p)].plist[loc[Watcher(p)].newPos + 1]
    /\ lastPosition' = 0
    /\ videoDuration' = 0
    /\ SetLoc(Watcher(p), [loc[Watcher(p)] EXCEPT !.ret = "m_adv"])
    /\ Goto(Watcher(p), "ps_lock")
    /\ UNCHANGED <<currentPlayer, mpvIPCPath, playlist, embyServerURL, embyUserId,
                   embyToken, proc, launched, moves, reports>>

\* variant: lastPos keeps the old index
SequencerAdvanceStale(p) ==
    /\ pc[Watcher(p)] = "m_adv"
    /\ SetLoc(Watcher(p), [NoLoc EXCEPT !.lastPos = loc[Watcher(p)].lastPos])
    /\ Goto(Watcher(p), "m_select")
    /\ UNCHANGED <<session, currentPlayerMu, proc, launched, moves, reports>>

\* lastPos = newPos
SequencerAdvance(p) ==
    /\ pc[Watcher(p)] = "m_adv"
    /\ SetLoc(Watcher(p), [NoLoc EXCEPT !.lastPos = loc[Watcher(p)].newPos])
    /\ Goto(Watcher(p), "m_select")
    /\ UNCHANGED <<session, currentPlayerMu, proc, launched, moves, reports>>

(* ----------------------------- /api/stop ------------------------------- *)
StopRequest ==
    /\ pc[StopH] = "idle"
    /\ Goto(StopH, "h_lock1")
    /\ UNCHANGED <<session, currentPlayerMu, proc, launched, moves, loc, reports>>

StopLockCmd == Lock(StopH, "h_lock1", "h_cs1")

\* cmd := currentPlayer
StopReadCmd ==
    /\ pc[StopH] = "h_cs1"
    /\ Unlock(StopH)
    /\ SetLoc(StopH, [loc[StopH] EXCEPT !.cmd = currentPlayer])
    /\ Goto(StopH, IF currentPlayer # NoCmd THEN "h_lock2" ELSE "h_resp")
    /\ UNCHANGED <<session, proc, launched, moves, reports>>

StopLockPath == Lock(StopH, "h_lock2", "h_cs2")

\* pipePath := mpvIPCPath
StopReadPath ==
    /\ pc[StopH] = "h_cs2"
    /\ Unlock(StopH)
    /\ SetLoc(StopH, [loc[StopH] EXCEPT !.pipePath = mpvIPCPath])
    /\ Goto(StopH, IF mpvIPCPath # "" THEN "h_quit" ELSE "h_kill")
    /\ UNCHANGED <<session, proc, launched, moves, reports>>

\* variant: the process is killed although the quit command was delivered
StopQuitThenKill(q) ==
    /\ pc[StopH] = "h_quit"
    /\ q \in Listeners
    /\ proc' = [proc EXCEPT ![q].state = "quitting"]
    /\ SetLoc(StopH, [loc[StopH] EXCEPT !.quit = "ok"])
    /\ Goto(StopH, "h_kill")
    /\ UNCHANGED <<session, currentPlayerMu, launched, moves, reports>>

\* sendMpvCommand(pipePath, "quit") succeeds: a player serving the endpoint
\* got the command
StopQuitSent(q) ==
    /\ pc[StopH] = "h_quit"
    /\ q \in Listeners
    /\ proc' = [proc EXCEPT ![q].state = "quitting"]
    /\ SetLoc(StopH, [loc[StopH] EXCEPT !.quit = "ok"])
    /\ Goto(StopH, "h_resp")
    /\ UNCHANGED <<session, currentPlayerMu, launched, moves, reports>>

\* variant: a failed quit command is only logged
StopQuitFailsNoKill ==
    /\ pc[StopH] = "h_quit"
    /\ SetLoc(StopH, [loc[StopH] EXCEPT !.quit = "err"])
    /\ Goto(StopH, "h_resp")
    /\ UNCHANGED <<session, currentPlayerMu, proc, launched, moves, reports>>

\* sendMpvCommand fails: connect or write error
StopQuitFails ==
    /\ pc[StopH] = "h_quit"
    /\ SetLoc(StopH, [loc[StopH] EXCEPT !.quit = "err"])
    /\ Goto(StopH, "h_kill")
    /\ UNCHANGED <<session, currentPlayerMu, proc, launched, moves, reports>>

\* variant: the handler reports the stop itself when it kills the process
StopKillAndReport ==
    /\ pc[StopH] = "h_kill"
    /\ proc' = [proc EXCEPT ![loc[StopH].cmd] =
                  IF Alive(loc[StopH].cmd)
                     THEN [@ EXCEPT !.state = "exited",
                                    !.trackedAtExit = (currentPlayer = loc[StopH].cmd)]
                     ELSE @]
    /\ reports' = Append(reports, Report("stopped", StopH, lastPosition))
    /\ SetLoc(StopH, [loc[StopH] EXCEPT !.killed = TRUE])
    /\ Goto(StopH, "h_resp")
    /\ UNCHANGED <<session, currentPlayerMu, launched, moves>>

\* cmd.Process.Kill()
StopKill ==
    /\ pc[StopH] = "h_kill"
    /\ proc' = [proc EXCEPT ![loc[StopH].cmd] =
                  IF Alive(loc[StopH].cmd)
                     THEN [@ EXCEPT !.state = "exited",
                                    !.trackedAtExit = (currentPlayer = loc[StopH].cmd)]
                     ELSE @]
    /\ SetLoc(StopH, [loc[StopH] EXCEPT !.killed = TRUE])
    /\ Goto(StopH, "h_resp")
    /\ UNCHANGED <<session, currentPlayerMu, launched, moves, reports>>

\* variant: the handler forgets the process it stopped
StopRespondAndClear ==
    /\ pc[StopH] = "h_resp"
    /\ currentPlayer' = NoCmd
    /\ SetLoc(StopH, NoLoc)
    /\ Goto(StopH, "idle")
    /\ UNCHANGED <<playerItemId, mpvIPCPath, lastPosition, videoDuration, playlist,
                   playlistPosition, embyServerURL, embyUserId, embyToken,
                   currentPlayerMu, proc, launched, moves, reports>>

\* {StatusH: "stopped"}
StopRespond ==
    /\ pc[StopH] = "h_resp"
    /\ SetLoc(StopH, NoLoc)
    /\ Goto(StopH, "idle")
    /\ UNCHANGED <<session, currentPlayerMu, proc, launched, moves, reports>>

(* ---------------------------- /api/status ------------------------------ *)
StatusRequest ==
    /\ pc[StatusH] = "idle"
    /\ Goto(StatusH, "t_lock")
    /\ UNCHANGED <<session, currentPlayerMu, proc, launched, moves, loc, reports>>

StatusLock == Lock(StatusH, "t_lock", "t_cs")

\* variant: the handler asks the player whatever it read
StatusReadAlwaysQuery ==
    /\ pc[StatusH] = "t_cs"
    /\ Unlock(StatusH)
    /\ SetLoc(StatusH, [loc[StatusH] EXCEPT !.cmd = currentPlayer])
    /\ Goto(StatusH, "gm_lock")
    /\ UNCHANGED <<session, proc, launched, moves, reports>>

\* cmd := currentPlayer; itemId := playerItemId; playing := cmd != nil
StatusRead ==
    /\ pc[StatusH] = "t_cs"
    /\ Unlock(StatusH)
    /\ SetLoc(StatusH, [loc[StatusH] EXCEPT !.cmd = currentPlayer])
    /\ Goto(StatusH, IF currentPlayer # NoCmd THEN "gm_lock" ELSE "t_resp")
    /\ UNCHANGED <<session, proc, launched, moves, reports>>

\* variant: playing is what the player's answer says
StatusResponseFromIpc ==
    IF loc[StatusH].cmd = NoCmd
       THEN [playing |-> FALSE, paused |-> FALSE, position |-> 0, duration |-> 0]
       ELSE [playing |-> loc[StatusH].status.Playing,
             paused |-> loc[StatusH].status.Paused,
             position |-> loc[StatusH].status.Position,
             duration |-> loc[StatusH].status.Duration]

\* the JSON object the handler encodes
StatusResponse ==
    IF loc[StatusH].cmd = NoCmd
       THEN [playing |-> FALSE, paused |-> FALSE, position |-> 0, duration |-> 0]
       ELSE [playing |-> TRUE, paused |-> loc[StatusH].status.Paused,
             position |-> loc[StatusH].status.Position,
             duration |-> loc[StatusH].status.Duration]

StatusRespond ==
    /\ pc[StatusH] = "t_resp"
    /\ SetLoc(StatusH, NoLoc)
    /\ Goto(StatusH, "idle")
    /\ UNCHANGED <<session, currentPlayerMu, proc, launched, moves, reports>>

(* --------------------------- specifications ---------------------------- *)
PlayerKeys == {"mpv", "vlc"}
CredentialSets == {FullCreds, NoCreds}

Launching == LaunchLock \/ TrackPlayer

GetInfoSteps(t) ==
    \/ GetInfoLock(t)
    \/ GetInfoReadPath(t)
    \/ \E r \in QueryMpvProperty(IPCPath, "time-pos") : GetInfoTimePos(t, r)
    \/ GetInfoSetPosition(t)
    \/ \E r \in QueryMpvProperty(IPCPath, "duration") : GetInfoDuration(t, r)
    \/ GetInfoSetDuration(t)
    \/ \E r \in QueryMpvProperty(IPCPath, "pause") : GetInfoPause(t, r)

StoppedSteps(t) == StoppedLock(t) \/ StoppedRead(t) \/ StoppedDone(t)

StartSteps(t) == StartLock(t) \/ StartRead(t) \/ StartDone(t)

ExitWatcher(p) ==
    \/ WaitReturns(p)
    \/ WatcherCheckIPC(p)
    \/ ClearLock(p)
    \/ ClearSession(p)

Sequencer(p) ==
    \/ SequencerDone(p)
    \/ SequencerTick(p)
    \/ \E r \in QueryMpvProperty(IPCPath, "playlist-pos") : SequencerPoll(p, r)
    \/ SequencerPlaylistLock(p)
    \/ SequencerReadPlaylist(p)
    \/ SequencerPreviousLock(p)
    \/ SequencerMarkComplete(p)
    \/ SequencerNewLock(p)
    \/ SequencerTrackNew(p)
    \/ SequencerAdvance(p)

StopHandler ==
    \/ StopRequest
    \/ StopLockCmd
    \/ StopReadCmd
    \/ StopLockPath
    \/ StopReadPath
    \/ \E q \in Procs : StopQuitSent(q)
    \/ StopQuitFails
    \/ StopKill
    \/ StopRespond

StatusHandler ==
    \/ StatusRequest
    \/ StatusLock
    \/ StatusRead
    \/ GetInfoSteps(StatusH)
    \/ StatusRespond

\* One /api/play session, any number of /api/stop and /api/status requests,
\* natural exit.
NextStop ==
    \/ \E k \in PlayerKeys, c \in CredentialSets :
          PlayRequest(1, k, "a", c)
    \/ Launching
    \/ \E p \in Procs : PlayerExit(p)
    \/ \E p \in Procs : ExitWatcher(p) \/ GetInfoSteps(Watcher(p))
                           \/ StoppedSteps(Watcher(p)) \/ StartSteps(Starter(p))
    \/ StopHandler
    \/ StatusHandler

SpecStop == Init /\ [][NextStop]_vars

\* One /api/playlist session followed by the sequencer, with /api/status polls.
NextPlaylist ==
    \/ \E k \in PlayerKeys : PlaylistRequest(1, k, <<"a", "b">>, FullCreds)
    \/ Launching
    \/ \E p \in Procs, i \in 0..1 : PlayerMove(p, i)
    \/ \E p \in Procs : PlayerExit(p)
    \/ \E p \in Procs : Sequencer(p) \/ ClearLock(p) \/ ClearSession(p)
                           \/ GetInfoSteps(Watcher(p)) \/ StoppedSteps(Watcher(p))
                           \/ StartSteps(Watcher(p)) \/ StartSteps(Starter(p))
    \/ StatusHandler

SpecPlaylist == Init /\ [][NextPlaylist]_vars

\* /api/play launches that may overlap: a new request while an earlier
\* process is tracked or its exit handling is not finished.  The start
\* reporters are left out: they write no session variable.
WatcherSteps(p) ==
    ExitWatcher(p) \/ GetInfoSteps(Watcher(p)) \/ StoppedSteps(Watcher(p))

NextOverlap ==
    \/ \E k \in PlayerKeys : PlayRequest(MaxLaunches, k, "a", FullCreds)
    \/ Launching
    \/ \E p \in Procs : PlayerExit(p)
    \/ \E p \in Procs : WatcherSteps(p)

SpecOverlap == Init /\ [][NextOverlap]_vars

\* A playlist session that a /api/play or a /api/playlist launch of another
\* client may replace while its sequencer is still running.
NextHandover ==
    \/ PlaylistRequest(1, "mpv", <<"a", "b">>, FullCreds)
    \/ \E k \in PlayerKeys : PlayRequest(MaxLaunches, k, "c", OtherCreds)
    \/ PlaylistRequest(MaxLaunches, "vlc", <<"c">>, OtherCreds)
    \/ Launching
    \/ \E p \in Procs, i \in 0..1 : PlayerMove(p, i)
    \/ \E p \in Procs : PlayerExit(p)
    \/ \E p \in Procs : ExitWatcher(p) \/ Sequencer(p) \/ GetInfoSteps(Watcher(p))
                           \/ StoppedSteps(Watcher(p)) \/ StartSteps(Watcher(p))

SpecHandover == Init /\ [][NextHandover]_vars

\* The Go scheduler runs every runnable goroutine.  Every task of this
\* specification takes finitely many steps and a held mutex is released by
\* the next step of its holder, so weak fairness covers the Lock() calls too.
SpecOverlapFair ==
    /\ SpecOverlap
    /\ WF_vars(Launching)
    /\ \A p \in Procs : WF_vars(WatcherSteps(p))

\* a player that got the quit command ends
QuitTakesEffect(p) == proc[p].state = "quitting" /\ PlayerExit(p)

\* The Go scheduler runs every runnable goroutine, so a handler that entered
\* its critical section leaves it and a reporter finishes; sync.Mutex hands
\* the mutex to a goroutine that keeps waiting for it (starvation mode), so
\* the watcher gets it although requests keep arriving.
SpecStopFair ==
    /\ SpecStop
    /\ WF_vars(Launching)
    /\ WF_vars(StopHandler /\ pc[StopH] # "idle")
    /\ WF_vars(StatusHandler /\ pc[StatusH] # "idle")
    /\ \A p \in Procs : /\ WF_vars(QuitTakesEffect(p))
                         /\ SF_vars(WatcherSteps(p))
                         /\ WF_vars(StartSteps(Starter(p)))

\* One /api/play request that launches, with every kind of player key, item
\* id and credential set, among requests that fail before a process exists.
LaunchKeys == ConfiguredPlayers \cup {"mplayer"}
LaunchCreds ==
    {FullCreds, NoCreds, [FullCreds EXCEPT !.token = ""],
     [FullCreds EXCEPT !.userId = ""], [FullCreds EXCEPT !.serverURL = ""]}

PlayHandlerCall ==
    \E path \in {"", "/media/a.mkv"} :
        \/ PlayMissingPath(path)
        \/ path # "" /\ StartFails
        \/ /\ path # ""
           /\ \E k \in LaunchKeys, item \in {"", "a"}, c \in LaunchCreds :
                 PlayRequest(1, k, item, c)

PlaylistHandlerFailing ==
    \E method \in {"GET", "POST"}, decodes \in BOOLEAN,
       items \in {<<>>, <<"a", "b">>} :
        \/ PlaylistMethodNotAllowed(method)
        \/ PlaylistInvalidJSON(method, decodes)
        \/ PlaylistEmpty(method, decodes, items)
        \/ method = "POST" /\ decodes /\ Len(items) > 0 /\ StartFails

NextLaunch ==
    \/ PlayHandlerCall
    \/ PlaylistHandlerFailing
    \/ LaunchErrorSent
    \/ Launching
    \/ \E p \in Procs : PlayerExit(p)
    \/ \E p \in Procs : WatcherSteps(p) \/ StartSteps(Starter(p))
    \/ StatusHandler

SpecLaunch == Init /\ [][NextLaunch]_vars

\* One /api/playlist session and its sequencer, with /api/status polls; the
\* start reporter of the handler is left out: it writes no session variable.
SequencerSteps(p) ==
    \/ Sequencer(p) \/ ClearLock(p) \/ ClearSession(p)
    \/ GetInfoSteps(Watcher(p)) \/ StoppedSteps(Watcher(p)) \/ StartSteps(Watcher(p))

NextSequencer ==
    \/ \E k \in PlayerKeys : PlaylistRequest(1, k, <<"a", "b">>, FullCreds)
    \/ Launching
    \/ \E p \in Procs, i \in 0..1 : PlayerMove(p, i)
    \/ \E p \in Procs : PlayerExit(p)
    \/ \E p \in Procs : SequencerSteps(p)
    \/ StatusHandler

SpecSequencer == Init /\ [][NextSequencer]_vars

\* The Go scheduler runs every runnable goroutine, and sync.Mutex hands the
\* mutex to a goroutine that keeps waiting for it (starvation mode): strong
\* fairness for the tasks that lock, although /api/status requests keep
\* arriving.  select picks at random among its ready cases, so a sequencer
\* that finds done closed again and again takes that case: strong fairness
\* for SequencerDone, which is not enabled while a poll is in progress.
SpecSequencerFair ==
    /\ SpecSequencer
    /\ SF_vars(Launching)
    /\ WF_vars(StatusHandler /\ pc[StatusH] # "idle")
    /\ \A p \in Procs : /\ SF_vars(SequencerDone(p))
                         /\ SF_vars(SequencerSteps(p))

\* One /api/playlist session and its sequencer as in SpecSequencer, with the
\* outcome of every progress report drawn from ReportOutcomes.
StoppedStepsOutcome(t) ==
    \/ StoppedLock(t) \/ StoppedRead(t)
    \/ \E code \in ReportOutcomes : StoppedOutcome(t, code)
    \/ StoppedLogged(t)

StartStepsOutcome(t) ==
    \/ StartLock(t) \/ StartRead(t)
    \/ \E code \in ReportOutcomes : StartOutcome(t, code)
    \/ StartLogged(t)

ReportingSequencer(p) ==
    \/ Sequencer(p) \/ ClearLock(p) \/ ClearSession(p)
    \/ GetInfoSteps(Watcher(p))
    \/ StoppedStepsOutcome(Watcher(p)) \/ StartStepsOutcome(Watcher(p))

NextReport ==
    \/ \E k \in PlayerKeys : PlaylistRequest(1, k, <<"a", "b">>, FullCreds)
    \/ Launching
    \/ \E p \in Procs, i \in 0..1 : PlayerMove(p, i)
    \/ \E p \in Procs : PlayerExit(p)
    \/ \E p \in Procs : ReportingSequencer(p)
    \/ StatusHandler

SpecReport == Init /\ [][NextReport]_vars

\* fairness as in SpecSequencerFair
SpecReportFair ==
    /\ SpecReport
    /\ SF_vars(Launching)
    /\ WF_vars(StatusHandler /\ pc[StatusH] # "idle")
    /\ \A p \in Procs : /\ SF_vars(SequencerDone(p))
                         /\ SF_vars(ReportingSequencer(p))

\* Launch requests of both kinds with every combination of player key,
\* resume flag, credentials, url_encode and path mappings, up to the tracking
\* of the process.  The goroutines the handlers start are left out: they
\* neither build nor change a command line.
PrefixRule(m, r) == [type |-> "prefix", match |-> m, replace |-> r]
WildcardRule(m, r) == [type |-> "wildcard", match |-> m, replace |-> r]
ArgsMappings == {<<>>, <<PrefixRule(<<"/", "m">>, <<"Z", ":">>)>>}
ArgsRequests ==
    {[kind |-> k, key |-> key, items |-> IF k = "play" THEN <<id>> ELSE <<id, "b">>,
      paths |-> IF k = "play" THEN <<path>> ELSE <<path, <<"/", "m", "/", "b">> >>,
      creds |-> c, resume |-> resume, urlEncode |-> enc, mappings |-> maps] :
        k \in {"play", "playlist"}, key \in {"mpv", "vlc", "mplayer"}, id \in {"", "a"},
        path \in {<<"/", "m", "/", "a">>, <<"/", "x", " ", "a">>},
        c \in {FullCreds, [FullCreds EXCEPT !.userId = ""]},
        resume \in BOOLEAN, enc \in BOOLEAN, maps \in ArgsMappings}

NextArgs ==
    \/ \E req \in ArgsRequests : LaunchDirect(1, req) \/ ResumeLookup(1, req)
    \/ \E ticks \in StoredTicks : ResumeLookupReturns(ticks)
    \/ Launching
    \/ \E p \in Procs : PlayerExit(p)

SpecArgs == Init /\ [][NextArgs]_vars

\* The daemon from main on: loadConfig, then the launch requests of SpecArgs
\* once it serves.
NextBoot ==
    \/ LoadConfigOk
    \/ \E writable \in BOOLEAN : LoadConfigFatal(writable)
    \/ Serving /\ \E req \in ArgsRequests : LaunchDirect(1, req)
    \/ Serving /\ \E req \in ArgsRequests : ResumeLookup(1, req)
    \/ Serving /\ \E ticks \in StoredTicks : ResumeLookupReturns(ticks)
    \/ Serving /\ LaunchLock
    \/ Serving /\ TrackPlayer
    \/ Serving /\ \E p \in Procs : PlayerExit(p)

SpecBoot == InitBoot /\ [][NextBoot]_vars

\* /api/play requests for every path of up to MaxPathLen characters under
\* every list of up to two path mappings, up to the tracking of the process;
\* the player is vlc, so that the path is the argument after the base ones.
PathChars == {"/", "a", "b"}
Paths == UNION {[1..n -> PathChars] : n \in 1..MaxPathLen}
PathRules ==
    {PrefixRule(m, r) : m \in {<<>>, <<"/">>, <<"/", "a">>, <<"b">>},
                        r \in {<<"Z", ":">>, <<"Z", "/">>}}
    \cup {[type |-> "legacy", match |-> <<"/", "b">>, replace |-> <<"/", "a">>]}
    \cup {WildcardRule(m, r) :
            m \in {<<"*">>, <<"/", "*">>, <<"*", "/">>, <<"*", "b">>, <<"*", "*", "b">>,
                   <<"/", "*", "*", "/">>},
            r \in {<<"{", "1", "}">>, <<"Z", "/", "{", "1", "}">>}}
PathMappings ==
    {<<>>} \cup {<<r>> : r \in PathRules} \cup {<<r1, r2>> : r1 \in PathRules, r2 \in PathRules}
TranslateRequests ==
    {[kind |-> "play", key |-> "vlc", items |-> <<"a">>, paths |-> <<path>>,
      creds |-> NoCreds, resume |-> FALSE, urlEncode |-> FALSE, mappings |-> maps] :
        path \in Paths, maps \in PathMappings}

NextTranslate ==
    \/ /\ pc[LaunchH] = "idle" /\ launched = 0
       /\ \E req \in TranslateRequests : LaunchDirect(1, req)
    \/ Launching
    \/ \E p \in Procs : PlayerExit(p)

SpecTranslate == Init /\ [][NextTranslate]_vars

\* /api/play requests under lists of up to three path mappings of which any
\* may hold a pattern that does not compile: an unbalanced regular
\* expression, or a wildcard pattern with a byte that is no UTF-8.
RegexRule(m, r) == [type |-> "regex", match |-> m, replace |-> r]
CompilingRules ==
    {PrefixRule(<<"/">>, <<"Z", ":">>), RegexRule(<<"(", "a", ")">>, <<"Z", "/">>),
     WildcardRule(<<"*", "b">>, <<"{", "1", "}">>)}
InvalidRules ==
    {RegexRule(<<"(">>, <<"Z">>), RegexRule(<<"a", ")">>, <<"Z">>),
     WildcardRule(<<BadByte, "*">>, <<"Z">>)}
CompileMappings ==
    LET rules == CompilingRules \cup InvalidRules
    IN UNION {[1..n -> rules] : n \in 0..3}
CompileRequests ==
    {[kind |-> "play", key |-> "vlc", items |-> <<"a">>, paths |-> <<path>>,
      creds |-> NoCreds, resume |-> FALSE, urlEncode |-> FALSE, mappings |-> maps] :
        path \in Paths, maps \in CompileMappings}

NextCompile ==
    \/ /\ pc[LaunchH] = "idle" /\ launched = 0
       /\ \E req \in CompileRequests : LaunchDirect(1, req)
    \/ Launching
    \/ \E p \in Procs : PlayerExit(p)

SpecCompile == Init /\ [][NextCompile]_vars

\* /api/play launches one after the other or overlapping, each with its start
\* reporter and its exit watcher, the play-session id of every report kept.
\* The player is vlc: no IPC query is part of these sessions.
StoppedStepsAt(t) ==
    \/ StoppedLock(t)
    \/ \E now \in Clock : StoppedReadAt(t, now)
    \/ StoppedDone(t)

StartStepsAt(t) ==
    \/ StartLock(t)
    \/ \E now \in Clock : StartReadAt(t, now)
    \/ StartDone(t)

NextIds ==
    \/ PlayRequest(MaxLaunches, "vlc", "a", FullCreds)
    \/ Launching
    \/ \E p \in Procs : PlayerExit(p)
    \/ \E p \in Procs : ExitWatcher(p)
    \/ \E p \in Procs : StoppedStepsAt(Watcher(p)) \/ StartStepsAt(Starter(p))

SpecIds == Init /\ [][NextIds]_vars

\* Launch requests of both kinds, each of which may arrive while the process
\* of an earlier one is tracked; the goroutines of the earlier session go on:
\* the exit watcher, and the sequencer on its exit path (its polls, which no
\* handler waits for, are left out).
NextAccept ==
    \/ PlayRequest(MaxLaunches, "vlc", "a", FullCreds)
    \/ PlaylistRequest(MaxLaunches, "mpv", <<"b", "c">>, OtherCreds)
    \/ Launching
    \/ \E p \in Procs : PlayerExit(p)
    \/ \E p \in Procs : WatcherSteps(p) \/ SequencerDone(p)

SpecAccept == Init /\ [][NextAccept]_vars

\* A two-item playlist session whose playlist a one-item /api/playlist
\* request of another client replaces while its sequencer is still polling.
NextReplaced ==
    \/ PlaylistRequest(1, "mpv", <<"a", "b">>, FullCreds)
    \/ launched = 1 /\ PlaylistRequest(MaxLaunches, "mpv", <<"c">>, OtherCreds)
    \/ Launching
    \/ \E p \in Procs, i \in 0..1 : PlayerMove(p, i)
    \/ \E p \in Procs : PlayerExit(p)
    \/ \E p \in Procs : SequencerSteps(p)

SpecReplaced == Init /\ [][NextReplaced]_vars

(* ----------------------------- properties ------------------------------ *)
Launched == {p \in Procs : proc[p].state # "none"}
ReportsBy(t) == SelectSeq(reports, LAMBDA r : r.by = t)
Stopped == {i \in 1..Len(reports) : reports[i].kind = "stopped"}
StoppedFor(item) == {i \in Stopped : reports[i].item = item}
\* the stopped reports of the index-change handling / of the exit handling
ChangeCause == "m_new_lock"
ExitCause == "cl_lock"
\* the started reports of the index-change handling
AdvanceCause == "m_adv"
WatcherOver(p) == pc[Watcher(p)] = "done"

\* C1: a single-item session started by /api/play with a non-empty item id,
\* server URL and token, and no other launch during it, gets exactly one
\* playback-stopped report, however /api/stop requests interleave with the
\* player's exit: never more than one, and one once the exit handling is over.
C1_ExactlyOneStoppedReport ==
    \A p \in Launched :
        (proc[p].kind = "play"
           /\ HasCredentials(proc[p].items[1], proc[p].serverURL, proc[p].token))
        => /\ Cardinality(Stopped) <= 1
           /\ WatcherOver(p) => /\ Cardinality(Stopped) = 1
                                /\ \A i \in Stopped : reports[i].item = proc[p].items[1]

\* a stop request killed the player, and the exit handling finished with its
\* report before the handler answered
C1_Witness ==
    /\ pc[StopH] = "h_resp"
    /\ loc[StopH].killed
    /\ loc[StopH].cmd \in Procs
    /\ WatcherOver(loc[StopH].cmd)
    /\ proc[loc[StopH].cmd].token # ""
    /\ Cardinality(Stopped) = 1

\* C2: in a playlist session every stopped report, whether it comes from the
\* index-change handling or from the exit handling, is for the item activated
\* last (the first item, or the item of the preceding started report of the
\* sequencer), and no activation is followed by two stopped reports.
C2_OneStopPerActivation ==
    \A p \in Launched :
        proc[p].kind = "playlist" =>
            LET w == ReportsBy(Watcher(p))
            IN \A k \in 1..Len(w) :
                  w[k].kind = "stopped" =>
                      IF k = 1
                         THEN w[k].item = proc[p].items[1]
                         ELSE w[k - 1].kind = "started" /\ w[k - 1].item = w[k].item

\* the index-change handling reported the stop of one item, and later the
\* exit handling reported the stop of another
C2_Witness ==
    \E p \in Launched :
        LET w == ReportsBy(Watcher(p))
        IN \E i, j \in 1..Len(w) :
              /\ i < j
              /\ w[i].kind = "stopped" /\ w[i].cause = ChangeCause
              /\ w[j].kind = "stopped" /\ w[j].cause = ExitCause
              /\ w[i].item # w[j].item

\* positions of the sequencer inside the handling of one index change
BeforeStopPc(l, c) ==
    \/ l \in {"m_prev_lock", "m_prev_cs"}
    \/ l \in {"rs_lock", "rs_cs"} /\ c = ChangeCause
BetweenPc(l, c) ==
    \/ l = "rs_http" /\ c = ChangeCause
    \/ l \in {"m_new_lock", "m_new_cs"}
    \/ l \in {"ps_lock", "ps_cs"} /\ c = AdvanceCause
AfterStartPc(l, c) ==
    \/ l = "ps_http" /\ c = AdvanceCause
    \/ l = "m_adv"
PollingPc(l) == l \in {"m_select", "m_poll", "m_pl_lock", "m_pl_cs"}

Activations(p, item) ==
    (IF item = proc[p].items[1] /\ pc[Watcher(p)] # "unborn" THEN 1 ELSE 0)
    + Cardinality({i \in 1..Len(reports) : /\ reports[i].kind = "started"
                                           /\ reports[i].cause = AdvanceCause
                                           /\ reports[i].item = item})

\* C4 (as amended): whatever sequence of playlist-pos values the player
\* answers, an item gets at most one stopped report for each time it became
\* the active item; an item the player returns to is reported again.
C4_OneStopPerTimeActive ==
    \A p \in Launched :
        proc[p].kind = "playlist" =>
            \A k \in 1..Len(proc[p].items) :
                Cardinality(StoppedFor(proc[p].items[k]))
                    <= Activations(p, proc[p].items[k])

\* the player went back to the first item, which was reported stopped twice
C4_Witness ==
    \E p \in Launched :
        /\ proc[p].kind = "playlist"
        /\ Cardinality(StoppedFor(proc[p].items[1])) = 2
        /\ Activations(p, proc[p].items[1]) = 2

\* C4 as stated: at most one stopped report for each item of the playlist
C4_AtMostOneStopPerItem ==
    \A p \in Launched :
        proc[p].kind = "playlist" =>
            \A k \in 1..Len(proc[p].items) :
                Cardinality(StoppedFor(proc[p].items[k])) <= 1

\* C5: the stopped report the sequencer sends for item i when the index moves
\* away from i carries the full duration of item i as its position.
C5_StopAtFullDuration ==
    \A i \in Stopped :
        reports[i].cause = ChangeCause => reports[i].pos = MediaDuration(reports[i].item)

\* the process p was still the tracked one when its watcher did the cleanup
ClearedBy(p) == WatcherOver(p) /\ proc[p].cleared

\* C6 (as amended): for every launched process that is still the tracked one
\* when its watcher reaches the cleanup, in a session with item id, server URL
\* and token, the watcher issues exactly one stopped report, while the process
\* is still tracked, and then resets the handle, the item id, the IPC endpoint
\* and the credentials; and after a process exited its watcher always gets
\* that far.
C6_ReportOnceThenClear ==
    /\ [](\A p \in Procs :
            ClearedBy(p) =>
                LET w == ReportsBy(Watcher(p))
                IN /\ Len(w) = 1
                   /\ w[1].kind = "stopped"
                   /\ w[1].cur = p
                   /\ w[1].item = proc[p].items[1])
    /\ [][\A p \in Procs :
            (pc[Watcher(p)] = "cl_cs" /\ pc'[Watcher(p)] = "done" /\ currentPlayer = p)
            => /\ currentPlayer' = NoCmd
               /\ playerItemId' = "" /\ mpvIPCPath' = ""
               /\ embyServerURL' = "" /\ embyUserId' = "" /\ embyToken' = ""
               /\ Len(ReportsBy(Watcher(p))) = 1]_vars
    /\ <>[](\A p \in Procs : proc[p].state = "exited" => WatcherOver(p))

\* a process exited while tracked, and its watcher reported and cleaned up
\* although another process had been launched before
C6_Witness ==
    \E p \in Procs :
        /\ ClearedBy(p)
        /\ proc[p].trackedAtExit
        /\ p > 1
        /\ Len(ReportsBy(Watcher(p))) = 1
        /\ currentPlayer = NoCmd

\* C6 as stated: for every process that was the tracked one when it exited,
\* the watcher reports and then leaves the session cleared
C6_TrackedAtExitIsCleared ==
    [][\A p \in Procs :
          (proc[p].trackedAtExit /\ pc[Watcher(p)] = "cl_cs" /\ pc'[Watcher(p)] = "done")
          => /\ currentPlayer' = NoCmd
             /\ playerItemId' = "" /\ mpvIPCPath' = ""
             /\ embyServerURL' = "" /\ embyUserId' = "" /\ embyToken' = ""]_vars

\* C7 (as amended): whenever no player handle is tracked, the IPC endpoint,
\* the server URL, the user id and the token are empty.
C7_NoHandleNoEndpointNoCredentials ==
    currentPlayer = NoCmd =>
        /\ mpvIPCPath = ""
        /\ embyServerURL = ""
        /\ embyUserId = ""
        /\ embyToken = ""

\* a session was cleaned up, and the refresh of another watcher left a
\* duration behind
C7_Witness ==
    /\ currentPlayer = NoCmd
    /\ \E p \in Procs : ClearedBy(p)
    /\ embyToken = ""
    /\ videoDuration # 0

\* C7 as stated: with no handle tracked every session field is empty or zero
C7_NoHandleAllFieldsEmpty ==
    currentPlayer = NoCmd =>
        /\ playerItemId = "" /\ mpvIPCPath = ""
        /\ lastPosition = 0 /\ videoDuration = 0
        /\ playlist = <<>> /\ playlistPosition = 0
        /\ embyServerURL = "" /\ embyUserId = "" /\ embyToken = ""

\* the positions at which the next step of a task reads or writes a session
\* variable
SessionAccessPc ==
    {"p_cs", "gm_cs", "rs_cs", "ps_cs", "cl_cs", "m_pl_cs", "m_prev_cs", "m_new_cs",
     "h_cs1", "h_cs2", "t_cs", "w_chk", "gm_setpos", "gm_setdur"}

\* C8: every read and every write of a session variable happens while the
\* task holds currentPlayerMu.
C8_SessionAccessUnderMutex ==
    \A t \in Tasks : pc[t] \in SessionAccessPc => currentPlayerMu = t

\* the positions at which a task waits for an IPC or HTTP call to return
CallPc == {"gm_pos", "gm_dur", "gm_pause", "m_poll", "h_quit", "rs_http", "ps_http"}
\* the positions between Lock() and Unlock()
CriticalPc ==
    {"p_cs", "gm_cs", "rs_cs", "ps_cs", "cl_cs", "m_pl_cs", "m_prev_cs", "m_new_cs",
     "h_cs1", "h_cs2", "t_cs"}

\* C9: no task holds currentPlayerMu while one of its IPC or HTTP calls is in
\* progress: the holder of the mutex is always inside a critical section,
\* which contains no call.
C9_NoCallUnderMutex ==
    \A t \in Tasks :
        /\ pc[t] \in CallPc => currentPlayerMu # t
        /\ currentPlayerMu = t => pc[t] \in CriticalPc

\* one request waits for the player's answer while another task is inside a
\* critical section
C9_Witness ==
    \E t, u \in Tasks :
        /\ t # u
        /\ pc[t] \in {"gm_pos", "gm_dur", "h_quit"}
        /\ currentPlayerMu = u
        /\ pc[u] \in CriticalPc

\* C10: a stop request that finds a session sends the quit command exactly
\* when the endpoint it read is non-empty, kills the process exactly when
\* that endpoint is empty or the quit command failed, and never kills after a
\* delivered quit command.
C10_QuitOrKill ==
    LET l == loc[StopH]
    IN /\ l.quit # "none" => l.pipePath # ""
       /\ l.killed => (l.pipePath = "" \/ l.quit = "err")
       /\ ~(l.quit = "ok" /\ l.killed)
       /\ (pc[StopH] = "h_resp" /\ l.cmd # NoCmd) =>
             /\ l.quit # "none" <=> l.pipePath # ""
             /\ l.killed <=> (l.pipePath = "" \/ l.quit = "err")

\* the quit command was delivered and the handler answers without a kill
C10_Witness ==
    /\ pc[StopH] = "h_resp"
    /\ loc[StopH].cmd # NoCmd
    /\ loc[StopH].quit = "ok"
    /\ ~loc[StopH].killed
    /\ \E p \in Procs : proc[p].state = "quitting"

\* the session of p is over: p exited, its watcher reported the stop (when the
\* session has an item id, a server URL and a token) and cleared the session,
\* so that /api/status finds no handle
SessionOver(p) ==
    /\ proc[p].state = "exited"
    /\ WatcherOver(p)
    /\ currentPlayer = NoCmd
    /\ HasCredentials(proc[p].items[1], proc[p].serverURL, proc[p].token)
          => \E i \in Stopped : reports[i].by = Watcher(p)

\* C11: once /api/stop has been handled for a tracked process, by the quit
\* command or by a kill, the process exits, its watcher reports the stop and
\* clears the session, and from then on /api/status finds no handle.
C11_StopLeadsToCleanup ==
    \A p \in Procs :
        [](pc[StopH] = "h_resp" /\ loc[StopH].cmd = p => <>[]SessionOver(p))

\* the quit command was delivered, the player ended and the session was
\* cleared before the handler answered
C11_Witness ==
    /\ pc[StopH] = "h_resp"
    /\ loc[StopH].quit = "ok"
    /\ loc[StopH].cmd \in Procs
    /\ SessionOver(loc[StopH].cmd)
    /\ proc[loc[StopH].cmd].token # ""

\* a step of the /api/stop handler
StopStep == pc'[StopH] # pc[StopH]

\* C12: no step of /api/stop changes a session variable or sends a report; a
\* request that finds no handle sends no command and kills nothing; and the
\* handler ends only by its one answer, {"status": "stopped"}.
C12_StopChangesNoSession ==
    /\ [][StopStep => session' = session /\ reports' = reports]_vars
    /\ [][(StopStep /\ loc'[StopH].cmd = NoCmd /\ loc[StopH].cmd = NoCmd)
             => /\ proc' = proc
                /\ loc'[StopH].quit = "none"
                /\ ~loc'[StopH].killed
                /\ pc'[StopH] \in {"h_lock1", "h_cs1", "h_resp", "idle"}]_vars
    /\ [][(StopStep /\ pc'[StopH] = "idle") => pc[StopH] = "h_resp"]_vars

\* a request that arrived between cmd.Start() and the tracking of the process
\* found no handle and left the player alone
C12_Witness ==
    /\ pc[StopH] = "h_resp"
    /\ loc[StopH].cmd = NoCmd
    /\ \E p \in Procs : Alive(p)
    /\ currentPlayer # NoCmd

\* a step of the /api/status handler
StatusStep == pc'[StatusH] # pc[StatusH]

\* C13: the playing field of the /api/status answer is true exactly when the
\* handler read a non-nil handle in its critical section, whatever the IPC
\* queries made afterwards returned.
C13_PlayingIffHandleRead ==
    /\ [][(pc[StatusH] = "t_cs" /\ StatusStep)
             => loc'[StatusH].cmd = currentPlayer]_vars
    /\ [][(StatusStep /\ pc[StatusH] \notin {"t_cs", "t_resp"})
             => loc'[StatusH].cmd = loc[StatusH].cmd]_vars
    /\ [](pc[StatusH] = "t_resp"
             => (StatusResponse.playing <=> loc[StatusH].cmd # NoCmd))

\* the answer says playing although the position query to the session's
\* endpoint failed
C13_Witness ==
    /\ pc[StatusH] = "t_resp"
    /\ StatusResponse.playing
    /\ ~loc[StatusH].status.Playing
    /\ proc[loc[StatusH].cmd].ipcPath # ""

\* C14: a /api/status request that reads no handle answers playing=false,
\* paused=false, position 0 and duration 0, makes no IPC query, changes no
\* session variable and ends by that answer.
C14_StatusWithoutSession ==
    /\ []((pc[StatusH] = "t_resp" /\ loc[StatusH].cmd = NoCmd)
             => StatusResponse = [playing |-> FALSE, paused |-> FALSE,
                                  position |-> 0, duration |-> 0])
    /\ [](loc[StatusH].cmd = NoCmd
             => pc[StatusH] \in {"idle", "t_lock", "t_cs", "t_resp"})
    /\ [][(StatusStep /\ loc[StatusH].cmd = NoCmd /\ loc'[StatusH].cmd = NoCmd)
             => session' = session /\ reports' = reports /\ proc' = proc]_vars
    /\ [][(StatusStep /\ pc'[StatusH] = "idle") => pc[StatusH] = "t_resp"]_vars

\* the answer is all zero although an earlier poll left a duration in the
\* session
C14_Witness ==
    /\ pc[StatusH] = "t_resp"
    /\ loc[StatusH].cmd = NoCmd
    /\ launched > 0
    /\ videoDuration # 0
    /\ StatusResponse.duration = 0

\* a step of the /api/play or /api/playlist handler
LaunchStep == pc'[LaunchH] # pc[LaunchH]

\* C15: a launch request that is answered 400, 405 or 500 changes no session
\* variable, starts no watcher, sequencer or start reporter, spawns no
\* process and sends no report; the handler ends with that answer.
C15_FailedLaunchLeavesSession ==
    /\ [][(LaunchStep /\ (pc[LaunchH] = "p_err" \/ pc'[LaunchH] = "p_err"))
             => /\ session' = session
                /\ reports' = reports
                /\ proc' = proc /\ launched' = launched
                /\ \A p \in Procs : /\ pc'[Watcher(p)] = pc[Watcher(p)]
                                     /\ pc'[Starter(p)] = pc[Starter(p)]]_vars
    /\ [][(LaunchStep /\ pc[LaunchH] = "p_err") => pc'[LaunchH] = "idle"]_vars
    /\ [](pc[LaunchH] = "p_err"
             => loc[LaunchH].val \in {400, 405, 500} /\ loc[LaunchH].cmd = NoCmd)

\* a launch fails with 500 while a session with a polled duration is tracked
C15_Witness ==
    /\ pc[LaunchH] = "p_err"
    /\ loc[LaunchH].val = 500
    /\ currentPlayer # NoCmd
    /\ playerItemId = "a"
    /\ videoDuration # 0

\* C16: while a session is tracked, its IPC endpoint is non-empty exactly
\* when the program launched for it is mpv, for every player key, also a key
\* the players table does not hold.
C16_IpcEndpointIffMpv ==
    currentPlayer # NoCmd
       => (mpvIPCPath # "" <=> PlayerPath(proc[currentPlayer].key) = "mpv")

\* the sequencer's "Start tracking new item" block
IndexUpdate(p) ==
    pc[Watcher(p)] = "m_new_cs" /\ pc'[Watcher(p)] # "m_new_cs"

\* C17 as stated: every update of the playlist index by the sequencer sets
\* it to a value greater than or equal to the previous one.
C17_IndexNeverDecreases ==
    [][\A p \in Procs : IndexUpdate(p) => playlistPosition' >= playlistPosition]_vars

\* C17 amended: every update of the playlist index by the sequencer sets it
\* to the playlist-pos the player reported, which differs from the index the
\* sequencer observed last and is a valid index of the playlist (it may be
\* lower than the previous index); the tracked item becomes the item at it.
C17_IndexFollowsPlayer ==
    [][\A p \in Procs :
          IndexUpdate(p)
             => LET l == loc[Watcher(p)]
                IN /\ playlistPosition' = l.newPos
                   /\ l.newPos # l.lastPos
                   /\ l.newPos \in 0..(Len(l.plist) - 1)
                   /\ playerItemId' = l.plist[l.newPos + 1]]_vars

\* the index went back from 1 to 0
C17_Witness ==
    \E p \in Procs :
        /\ pc[Watcher(p)] = "m_adv"
        /\ loc[Watcher(p)].lastPos = 1
        /\ loc[Watcher(p)].newPos = 0
        /\ playlistPosition = 0

\* the sequencer's playlist-pos query returns
PollReturns(p) == pc[Watcher(p)] = "m_poll" /\ pc'[Watcher(p)] # "m_poll"
\* the sequencer is in its loop, not in the handling of the exit
InLoop(p) ==
    \/ pc[Watcher(p)] \in {"m_select", "m_poll", "m_pl_lock", "m_pl_cs", "m_prev_lock",
                           "m_prev_cs", "m_new_lock", "m_new_cs", "m_adv"}
    \/ loc[Watcher(p)].ret \in {"m_new_lock", "m_adv"}

\* C18: a playlist-pos query that fails or returns no number (then no
\* change is handled: the query is answered only by a listening player, with
\* its index) leaves the sequencer's lastPos and every session variable as
\* they were and returns to the select; the sequencer leaves its loop only
\* when the process has exited, and once it has exited the sequencer
\* eventually terminates.
C18_FailedPollKeepsSequencer ==
    /\ [][\A p \in Procs :
            PollReturns(p)
               => /\ session' = session
                  /\ loc'[Watcher(p)].lastPos = loc[Watcher(p)].lastPos
                  /\ \/ pc'[Watcher(p)] = "m_select" /\ loc' = loc
                     \/ /\ pc'[Watcher(p)] = "m_pl_lock"
                        /\ \E q \in Listeners :
                              loc'[Watcher(p)].newPos = proc[q].idx]_vars
    /\ [](\A p \in Procs :
            (proc[p].state \in {"running", "quitting"} /\ pc[Watcher(p)] # "unborn")
               => InLoop(p))
    /\ <>[](\A p \in Procs : proc[p].state = "exited" => WatcherOver(p))

\* a query is under way that nobody answers: the player went to the second
\* entry and exited before the sequencer saw the change
C18_Witness ==
    \E p \in Procs :
        /\ pc[Watcher(p)] = "m_poll"
        /\ Listeners = {}
        /\ proc[p].idx = 1
        /\ loc[Watcher(p)].lastPos = 0
        /\ playlistPosition = 0
        /\ currentPlayer = p

\* C19: in a session with an IPC endpoint the exit handling refreshes the
\* position before it reports: its time-pos query is answered with the
\* player's position, which getMpvPlaybackInfo stores in lastPosition.
C19_ExitQueryRefreshesPosition ==
    [][\A p \in Procs :
          (pc[Watcher(p)] = "gm_pos" /\ pc'[Watcher(p)] # "gm_pos")
             => pc'[Watcher(p)] = "gm_setpos"]_vars

\* the reporter t leaves the critical section in which it reads the session
ReporterReads(t) == pc[t] \in {"rs_cs", "ps_cs"} /\ pc'[t] # pc[t]

\* C20: reportPlaybackStart and reportPlaybackStopped send exactly one
\* request when the item id, the server URL and the token they read are all
\* non-empty (the user id is not looked at), carrying the values read;
\* otherwise they send nothing and return to their caller; in both cases no
\* session variable changes.
C20_ReportIffCredentials ==
    [][\A t \in Tasks :
          ReporterReads(t)
             => /\ session' = session
                /\ IF playerItemId # "" /\ embyServerURL # "" /\ embyToken # ""
                      THEN /\ Len(reports') = Len(reports) + 1
                           /\ SubSeq(reports', 1, Len(reports)) = reports
                           /\ LET r == reports'[Len(reports')]
                              IN /\ r.kind = (IF pc[t] = "rs_cs" THEN "stopped"
                                                                 ELSE "started")
                                 /\ r.item = playerItemId
                                 /\ r.serverURL = embyServerURL
                                 /\ r.token = embyToken
                           /\ pc'[t] \in {"rs_http", "ps_http"}
                      ELSE /\ reports' = reports
                           /\ pc'[t] = loc[t].ret]_vars

\* the start report was skipped for a session that has a server URL and a
\* user id but no token
C20_Witness ==
    \E p \in Procs :
        /\ pc[Starter(p)] = "done"
        /\ currentPlayer = p
        /\ playerItemId # "" /\ embyServerURL # "" /\ embyUserId # ""
        /\ embyToken = ""
        /\ reports = <<>>

\* the reporter called by t got no 2xx response
ReportFailed(t) == pc[t] \in {"rs_log", "ps_log"} /\ ~Success(loc[t].val)

\* C21: a progress report that ends in a network error or a non-2xx answer
\* changes nothing: the reporter returns to its caller exactly as after a
\* success, with the session, the processes and the report log unchanged;
\* no handler of an HTTP request ever runs a reporter; after a failed
\* started report of an index change the sequencer takes over the new index
\* and is back at its select; and every exited process's session handling
\* still ends, with the session cleared if that process was tracked.
C21_FailedReportChangesNothing ==
    /\ [][\A t \in Tasks :
            (pc[t] \in {"rs_http", "ps_http", "rs_log", "ps_log"} /\ pc'[t] # pc[t])
               => /\ session' = session /\ proc' = proc /\ reports' = reports
                  /\ pc[t] \in {"rs_log", "ps_log"} => pc'[t] = loc[t].ret]_vars
    /\ [](\A t \in Handlers :
            pc[t] \notin {"rs_lock", "rs_cs", "rs_http", "rs_log",
                          "ps_lock", "ps_cs", "ps_http", "ps_log"})
    /\ \A p \in Procs :
          [](/\ ReportFailed(Watcher(p))
              /\ loc[Watcher(p)].ret = AdvanceCause
              /\ loc[Watcher(p)].newPos = 1
                => <>(/\ pc[Watcher(p)] = "m_select"
                      /\ loc[Watcher(p)].lastPos = 1))
    /\ <>[](\A p \in Procs :
              proc[p].state = "exited" => WatcherOver(p) /\ currentPlayer # p)

\* the stopped report of the exit handling was answered with 500
C21_Witness ==
    \E p \in Procs :
        /\ pc[Watcher(p)] = "rs_log"
        /\ loc[Watcher(p)].val = 500
        /\ loc[Watcher(p)].ret = ExitCause
        /\ currentPlayer = p

\* C22: the handler of a launch request never waits for a call to the media
\* server: no state has the handler inside getStoredPosition.
C22_HandlerNeverWaitsForServer == pc[LaunchH] # "p_resume"

\* the arguments between the base arguments and the paths
MiddleArgs(p) ==
    SubSeq(proc[p].args, Len(BaseArgs(proc[p].key)) + 1,
           Len(proc[p].args) - Len(proc[p].req.paths))

\* C23: the argument list of every spawned player is the base arguments of
\* its player, then the IPC argument (only with program mpv, exactly when
\* the session gets an endpoint), then the start argument (only after the
\* IPC argument and for a positive stored position), then one argument per
\* path of the request, in the request's order: the translated path,
\* percent-encoded if url_encode is set.
C23_ArgumentOrder ==
    \A p \in Launched :
        LET r == proc[p].req
            a == proc[p].args
            nb == Len(BaseArgs(r.key))
            np == Len(r.paths)
        IN /\ Len(a) >= nb + np
           /\ SubSeq(a, 1, nb) = BaseArgs(r.key)
           /\ \A i \in 1..np :
                 a[Len(a) - np + i] =
                    (IF r.urlEncode THEN PathEscape(translatePath(r.paths[i], r.mappings))
                                    ELSE translatePath(r.paths[i], r.mappings))
           /\ MiddleArgs(p) \in {<<>>, <<IpcArg>>, <<IpcArg, StartArg(proc[p].stored)>>}
           /\ (MiddleArgs(p) # <<>>) <=> (proc[p].ipcPath # "")
           /\ MiddleArgs(p) # <<>> => proc[p].exe = "mpv"
           /\ Len(MiddleArgs(p)) = 2 => proc[p].stored > 0

\* a playlist of two different paths for mpv with url_encode, a mapping and
\* a resume position: five arguments
C23_Witness ==
    \E p \in Launched :
        /\ proc[p].kind = "playlist"
        /\ proc[p].req.urlEncode
        /\ proc[p].req.mappings # <<>>
        /\ proc[p].req.paths[1] # proc[p].req.paths[2]
        /\ Len(proc[p].args) = 5

HasStartArg(p) ==
    \E i \in 1..Len(proc[p].args) : proc[p].args[i][1] = "--start="

\* C24: a player is launched with a start argument exactly when the request
\* asked for resume and the media server returned a positive position, for
\* every player key.
C24_StartArgIffStoredPosition ==
    \A p \in Launched :
        HasStartArg(p) <=> (proc[p].req.resume /\ proc[p].stored > 0)

\* C25: a request under a player key that the players table does not hold
\* is launched like any other: the process is spawned, with the executable
\* mpv and the base arguments --fs.
C25_FallbackPlayer ==
    /\ \A p \in Launched :
          proc[p].key \notin ConfiguredPlayers
             => /\ proc[p].exe = "mpv"
                /\ SubSeq(proc[p].args, 1, 1) = <<(<<"--fs">>)>>
                /\ MiddleArgs(p) = <<>>
    /\ \A req \in ArgsRequests :
          (req.key \notin ConfiguredPlayers /\ pc[LaunchH] = "idle" /\ launched = 0)
             => ENABLED (LaunchDirect(1, req) \/ ResumeLookup(1, req))

\* the process of a request under the key "mplayer" is tracked
C25_Witness ==
    /\ currentPlayer # NoCmd
    /\ proc[currentPlayer].key = "mplayer"
    /\ proc[currentPlayer].exe = "mpv"

\* C26: a configuration file with malformed JSON does not end the daemon
\* (it goes on with the default configuration and serves).
C26_MalformedConfigRecovered ==
    loc[Main].file = "malformed" => pc[Main] # "fatal"

\* the requested path of the process p, its mappings, and the path the
\* player got
PathOf(p) == proc[p].req.paths[1]
MappingsOf(p) == proc[p].req.mappings
TranslatedOf(p) == proc[p].args[Len(proc[p].args)]
\* s with every '/' replaced by '\'
Converted(s) == [i \in 1..Len(s) |-> IF s[i] = "/" THEN "\\" ELSE s[i]]
\* the indices of the rules that match the path
MatchingRules(path, mappings) ==
    {i \in 1..Len(mappings) : applyMapping(path, mappings[i]).matched}

\* C27: under a rule list of one prefix rule (match m, replace r) a path p
\* that starts with m is translated to r followed by p without its first
\* len(m) characters, with every '/' replaced by '\'; any other path is
\* translated to itself with every '/' replaced by '\'.
C27_PrefixRule ==
    \A p \in Launched :
        (Len(MappingsOf(p)) = 1 /\ MappingsOf(p)[1].type = "prefix")
           => LET path == PathOf(p)
                  m == MappingsOf(p)[1].match
                  r == MappingsOf(p)[1].replace
              IN TranslatedOf(p) =
                    (IF Len(m) <= Len(path) /\ SubSeq(path, 1, Len(m)) = m
                        THEN Converted(r \o SubSeq(path, Len(m) + 1, Len(path)))
                        ELSE Converted(path))

\* the path /a/b under the prefix rule /a -> Z/
C27_Witness ==
    \E p \in Launched :
        /\ PathOf(p) = <<"/", "a", "/">>
        /\ MappingsOf(p) = <<PrefixRule(<<"/", "a">>, <<"Z", "/">>)>>
        /\ TranslatedOf(p) = <<"Z", "\\", "\\">>

\* C28: the translation is that of the lowest-indexed matching rule alone:
\* it equals the translation under the list of that one rule, and under the
\* list cut after that rule; without a matching rule it equals the
\* translation under the empty list.
C28_FirstMatchWins ==
    \A p \in Launched :
        LET matching == MatchingRules(PathOf(p), MappingsOf(p))
        IN IF matching = {}
              THEN TranslatedOf(p) = translatePath(PathOf(p), <<>>)
              ELSE LET k == SetMin(matching)
                   IN /\ TranslatedOf(p) = translatePath(PathOf(p), <<MappingsOf(p)[k]>>)
                      /\ TranslatedOf(p) =
                            translatePath(PathOf(p), SubSeq(MappingsOf(p), 1, k))

\* two rules match and, each alone, give different translations
C28_Witness ==
    \E p \in Launched :
        /\ MatchingRules(PathOf(p), MappingsOf(p)) = {1, 2}
        /\ translatePath(PathOf(p), <<MappingsOf(p)[1]>>)
              # translatePath(PathOf(p), <<MappingsOf(p)[2]>>)
        /\ TranslatedOf(p) = translatePath(PathOf(p), <<MappingsOf(p)[1]>>)

OneStar(pattern) == Cardinality({i \in 1..Len(pattern) : pattern[i] = "*"}) = 1

\* C30: when a wildcard rule whose pattern has exactly one '*' matches a
\* path, the text captured by the '*' contains no '/'.
C30_StarCapturesNoSeparator ==
    \A p \in Launched :
        \A i \in 1..Len(MappingsOf(p)) :
            LET rule == MappingsOf(p)[i]
                m == FindStringSubmatch(wildcardToRegex(rule.match), PathOf(p))
            IN (rule.type = "wildcard" /\ OneStar(rule.match) /\ m.ok)
                  => /\ Len(m.groups) = 2
                     /\ ~Contains(m.groups[1], "/")

\* the rule * -> {1} matched a/b: the capture is a, the rest /b
C30_Witness ==
    \E p \in Launched :
        /\ MappingsOf(p) = <<WildcardRule(<<"*">>, <<"{", "1", "}">>)>>
        /\ PathOf(p) = <<"a", "/", "b">>
        /\ TranslatedOf(p) = <<"a", "\\", "\\", "b">>

\* the rule that translated the path of p: the first one that matches
RuleOf(p) == MappingsOf(p)[SetMin(MatchingRules(PathOf(p), MappingsOf(p)))]
EndsInSeparator(s) == HasSuffix(s, <<"/">>) \/ HasSuffix(s, <<"\\">>)

\* C31: the translation by a wildcard rule is the replacement with its {n}
\* filled in, then the remainder of the path as it is, with a '/' put
\* between them only where none stands there (the replacement does not end
\* in a separator and the remainder does not begin with '/'), all of it with
\* every '/' replaced by '\': a remainder beginning with '/' is preceded by
\* one separator.
C31_OneSeparatorBeforeRemainder ==
    \A p \in Launched :
        (MatchingRules(PathOf(p), MappingsOf(p)) # {} /\ RuleOf(p).type = "wildcard")
           => LET m == FindStringSubmatch(wildcardToRegex(RuleOf(p).match), PathOf(p))
                  remainder == m.groups[Len(m.groups)]
                  result == ExpandGroups(RuleOf(p).replace, m.groups, 1)
                  missing == /\ remainder # <<>>
                             /\ ~EndsInSeparator(result)
                             /\ Head(remainder) # "/"
              IN TranslatedOf(p) =
                    Converted(result \o (IF missing THEN <<"/">> ELSE <<>>) \o remainder)

\* the pattern of the rule does not compile
Invalid(rule) ==
    \/ rule.type = "regex" /\ ~RegexCompiles(rule.match)
    \/ rule.type = "wildcard" /\ ~WildcardCompiles(rule.match)
Without(s, i) == SubSeq(s, 1, i - 1) \o SubSeq(s, i + 1, Len(s))

\* C32: a request under a rule list with patterns that do not compile is
\* launched, and the path its player gets is the translation under the list
\* without the invalid rules, and under the list without any one of them.
C32_InvalidPatternSkipped ==
    \A p \in Launched :
        /\ TranslatedOf(p) =
              translatePath(PathOf(p), SelectSeq(MappingsOf(p), LAMBDA r : ~Invalid(r)))
        /\ \A i \in 1..Len(MappingsOf(p)) :
              Invalid(MappingsOf(p)[i])
                 => TranslatedOf(p) = translatePath(PathOf(p), Without(MappingsOf(p), i))

\* /a under an unbalanced regular expression, a wildcard pattern with an
\* invalid byte and then the prefix rule / -> Z: : the third rule translated
C32_Witness ==
    \E p \in Launched :
        /\ MappingsOf(p) = <<RegexRule(<<"(">>, <<"Z">>),
                             WildcardRule(<<BadByte, "*">>, <<"Z">>),
                             PrefixRule(<<"/">>, <<"Z", ":">>)>>
        /\ PathOf(p) = <<"/", "a">>
        /\ TranslatedOf(p) = <<"Z", ":", "a">>

\* the process whose start reporter or exit watcher sent the report
AttemptOf(r) == r.by[2]

\* C33: in sessions of /api/play, where every process is one playback
\* attempt, two reports carry the same play-session id exactly when they
\* belong to the same attempt.
C33_SessionIdPerAttempt ==
    \A i, j \in 1..Len(reports) :
        (AttemptOf(reports[i]) = AttemptOf(reports[j]))
           <=> (reports[i].PlaySessionId = reports[j].PlaySessionId)

\* the handler tracks the process it spawned
TrackStep == pc[LaunchH] = "p_cs" /\ pc'[LaunchH] = "idle"

\* C34: a /api/play or /api/playlist request that arrives while a process
\* is tracked is launched like any other; when its handler tracks the new
\* process, the handle is the new process and the item id, the endpoint, the
\* credentials and the positions are those of the new request (of a
\* playlist request also the playlist, with index 0); no step of the handler
\* changes an earlier process.
C34_LaunchWhileTrackedAccepted ==
    /\ []((pc[LaunchH] = "idle" /\ launched < MaxLaunches /\ currentPlayer # NoCmd)
             => /\ ENABLED PlayRequest(MaxLaunches, "vlc", "a", FullCreds)
                /\ ENABLED PlaylistRequest(MaxLaunches, "mpv", <<"b", "c">>, OtherCreds))
    /\ [][TrackStep =>
             LET p == loc[LaunchH].cmd
                 r == proc[p].req
             IN /\ currentPlayer' = p
                /\ playerItemId' = r.items[1]
                /\ mpvIPCPath' = (IF r.key = "mpv" THEN IPCPath ELSE "")
                /\ embyServerURL' = r.creds.serverURL
                /\ embyUserId' = r.creds.userId
                /\ embyToken' = r.creds.token
                /\ lastPosition' = 0 /\ videoDuration' = 0
                /\ r.kind = "playlist" => (playlist' = r.items /\ playlistPosition' = 0)]_vars
    /\ [][LaunchStep =>
             \A q \in Launched : proc'[q] = proc[q]]_vars

\* a playlist request was launched while the process of a /api/play request
\* was tracked: the session is that of the playlist, the earlier process runs
C34_Witness ==
    /\ currentPlayer = 2
    /\ proc[1].kind = "play" /\ proc[1].state = "running"
    /\ proc[2].kind = "playlist" /\ proc[2].state = "running"
    /\ playerItemId = "b" /\ playlist = <<"b", "c">>
    /\ embyToken = "tok2"
    /\ pc[LaunchH] = "idle"

\* the sequencer of p is at its select, at its query, or deciding about the
\* answer
Observing(p) == pc[Watcher(p)] \in {"m_select", "m_poll", "m_pl_lock", "m_pl_cs"}
\* the sequencer of p handles a change of the index
HandlingChange(p) ==
    \/ pc[Watcher(p)] \in {"m_prev_lock", "m_prev_cs", "m_new_lock", "m_new_cs", "m_adv"}
    \/ loc[Watcher(p)].ret \in {"m_new_lock", "m_adv"}

\* C35: the sequencer handles an observed playlist-pos as a change only when
\* it differs from the last observed index, is not negative and is less than
\* the length of the playlist; until then its steps change no session
\* variable and not the last observed index and send no report, and an
\* answer that is equal, negative or too large takes it back to its select.
C35_OnlyValidChangedIndex ==
    /\ [](\A p \in Procs :
            LET l == loc[Watcher(p)]
            IN /\ pc[Watcher(p)] \in {"m_pl_lock", "m_pl_cs"}
                  => (l.newPos # l.lastPos /\ l.newPos >= 0)
               /\ HandlingChange(p)
                  => (l.newPos # l.lastPos /\ l.newPos >= 0 /\ l.newPos < Len(l.plist)))
    /\ [][\A p \in Procs :
            (Observing(p) /\ pc'[Watcher(p)] # pc[Watcher(p)]
                          /\ pc'[Watcher(p)] \notin {"gm_lock", "rs_lock"})
               => /\ session' = session
                  /\ reports' = reports
                  /\ loc'[Watcher(p)].lastPos = loc[Watcher(p)].lastPos
                  /\ (pc[Watcher(p)] = "m_pl_cs"
                         /\ loc[Watcher(p)].newPos >= Len(playlist))
                        => pc'[Watcher(p)] = "m_select"]_vars

\* the sequencer of the replaced session observed index 1 and reads the
\* playlist of the later session, which has one item
C35_Witness ==
    \E p \in Procs :
        /\ pc[Watcher(p)] = "m_pl_cs"
        /\ loc[Watcher(p)].newPos = 1
        /\ loc[Watcher(p)].lastPos = 0
        /\ playlist = <<"c">>
        /\ currentPlayer # p

\* the reports of the session of p: those of its start reporter and of its
\* sequencer
SessionReports(p, kind) ==
    SelectSeq(reports, LAMBDA r : r.by \in {Starter(p), Watcher(p)} /\ r.kind = kind)

\* C36: in a playlist session without an IPC endpoint the sequencer never
\* queries the player and never handles a change, the index stays 0 and the
\* item id is the first item's or empty; every report of the session is for
\* the first item, and once the exit handling and the start reporter are
\* over there is exactly one started and exactly one stopped report.
C36_NoEndpointOneStartOneStop ==
    \A p \in Launched :
        (proc[p].kind = "playlist" /\ proc[p].ipcPath = "")
           => /\ pc[Watcher(p)] # "m_poll" /\ ~HandlingChange(p)
              /\ playlistPosition = 0
              /\ playerItemId \in {proc[p].items[1], ""}
              /\ \A i \in 1..Len(reports) : reports[i].item = proc[p].items[1]
              /\ Len(SessionReports(p, "started")) <= 1
              /\ Len(SessionReports(p, "stopped")) <= 1
              /\ (WatcherOver(p) /\ pc[Starter(p)] = "done")
                    => /\ Len(SessionReports(p, "started")) = 1
                       /\ Len(SessionReports(p, "stopped")) = 1

\* the watcher or sequencer of p is in the handling of the exit of p
ExitHandling(p) ==
    \/ pc[Watcher(p)] \in {"w_chk", "cl_lock", "cl_cs"}
    \/ loc[Watcher(p)].ret = "cl_lock"

\* C37: a step of the exit handling of a process that is not the tracked
\* one changes neither the handle nor the item id, the IPC endpoint, the
\* playlist, the playlist index or the credentials.
C37_ExitOfReplacedKeepsSession ==
    [][\A p \in Procs :
          (ExitHandling(p) /\ pc'[Watcher(p)] # pc[Watcher(p)] /\ currentPlayer # p)
             => <<currentPlayer, playerItemId, mpvIPCPath, playlist, playlistPosition,
                  embyServerURL, embyUserId, embyToken>>'
                = <<currentPlayer, playerItemId, mpvIPCPath, playlist, playlistPosition,
                    embyServerURL, embyUserId, embyToken>>]_vars

\* a process that a later launch replaced has exited and its exit handling
\* is over: the later session is tracked with its item and credentials
C37_Witness ==
    \E p, q \in Procs :
        /\ p < q
        /\ proc[p].state = "exited" /\ ~proc[p].trackedAtExit
        /\ WatcherOver(p) /\ ~proc[p].cleared
        /\ proc[q].state = "running"
        /\ currentPlayer = q
        /\ playerItemId = proc[q].items[1]
        /\ mpvIPCPath = proc[q].ipcPath
        /\ embyServerURL = proc[q].serverURL /\ embyToken = proc[q].token
        /\ proc[q].kind = "playlist" /\ playlist = proc[q].items

\* C38: every stopped report sent by the exit handling of a process carries
\* the item id and the credentials of the request that launched that
\* process, and was read while that process was the tracked one.
C38_ExitReportOfOwnSession ==
    \A i \in 1..Len(reports) :
        LET r == reports[i]
            p == r.by[2]
        IN (r.kind = "stopped" /\ r.cause = ExitCause)
              => /\ r.item = proc[p].items[1]
                 /\ r.serverURL = proc[p].serverURL
                 /\ r.token = proc[p].token
                 /\ r.cur = p

\* C39: while a process is tracked, the IPC endpoint and the credentials
\* are those of the request that launched it, the item id is one of that
\* request's items, and in a playlist session the playlist is that
\* request's and the index is an index of it.
C39_SessionOfTrackedProcess ==
    currentPlayer # NoCmd =>
        LET r == proc[currentPlayer]
        IN /\ mpvIPCPath = r.ipcPath
           /\ embyServerURL = r.serverURL
           /\ embyUserId = r.userId
           /\ embyToken = r.token
           /\ \E i \in 1..Len(r.items) : playerItemId = r.items[i]
           /\ r.kind = "playlist"
                 => playlist = r.items /\ playlistPosition \in 0..(Len(r.items) - 1)

\* C40: every stopped report comes after a started report for the same
\* item.
C40_StartedBeforeStopped ==
    \A i \in Stopped :
        \E j \in 1..(i - 1) :
            reports[j].kind = "started" /\ reports[j].item = reports[i].item

====
